---------------------------- MODULE Spec2Model ----------------------------
(***************************************************************************)
(* A model of streamlit_gsheets/gsheets_connection.py: the connection's    *)
(* two clients (public CSV export, service account), their stored          *)
(* defaults and the operations read, query, create, update, clear and      *)
(* set_default.                                                            *)
(*                                                                         *)
(* Python values are records [ty, v]: ty is "none", "int" or "str" and v   *)
(* is the value's text as a sequence of tokens (a token is a run of        *)
(* characters that no regular expression of the program splits).  The      *)
(* tokens "/", "?", "#", "&", "=" and ":" are single characters.           *)
(***************************************************************************)
EXTENDS Integers, Sequences, FiniteSets, TLC

VARIABLES
    pc,            \* "new" before _connect, "ready" after; "in"/"out" in SpecUrl
    secrets,       \* the connection's configuration (secrets_dict)
    client,        \* which client _connect built: "none", "public", "service_account"
    _spreadsheet,  \* GSheetsClient._spreadsheet
    _worksheet,    \* GSheetsClient._worksheet
    book,          \* the worksheets of the remote spreadsheet (service account)
    created,       \* the spreadsheets Client.create has made, oldest first
    writes,        \* how many calls have changed the remote spreadsheets
    cache,         \* the entries of st.cache_data: key and value
    last           \* the latest call: operation, arguments, events, outcome

vars == <<pc, secrets, client, _spreadsheet, _worksheet, book, created, writes,
          cache, last>>

---------------------------------------------------------------------------
(* Bounds *)

\* the longest URL path, in segments
MaxSegs == 5

\* the most table names one SQL string references
MaxTables == 2

\* the most calls that change the remote spreadsheets
MaxWrites == 1

---------------------------------------------------------------------------
(* Python values *)

PyNone == [ty |-> "none", v |-> <<>>]
PyStr(s) == [ty |-> "str", v |-> s]
PyInt(d) == [ty |-> "int", v |-> <<d>>]
PyTrue == [ty |-> "bool", v |-> <<"True">>]
PyFalse == [ty |-> "bool", v |-> <<"False">>]

\* bool(x): None, 0 and "" are false, an object is true
Truthy(x) ==
    CASE x.ty = "none" -> FALSE
      [] x.ty = "int" -> x.v # <<"0">>
      [] x.ty = "str" -> x.v # <<>>
      [] x.ty = "bool" -> x.v = <<"True">>
      [] OTHER -> TRUE

\* f"{x}"
Format(x) == IF x.ty = "none" THEN <<"None">> ELSE x.v

\* x or y
PyOr(x, y) == IF Truthy(x) THEN x ELSE y

\* s[i..j] for any i, j (empty when j < i)
Slice(s, i, j) == IF j < i THEN <<>> ELSE SubSeq(s, i, j)

\* the tokens \w+ can match
WordTokens == {"d", "k1", "k2", "edit", "gid", "usp", "sharing", "range", "x",
               "0", "5", "7", "9", "Book", "New", "Nope", "Sheet1", "Sheet2", "tmp"}

---------------------------------------------------------------------------
(* URLs *)

Scheme == <<"https:", "/", "/">>
Host == "docs.google.com"

\* validators.url: here, a string that starts with a scheme and a host
validate_url(x) ==
    /\ x.ty = "str"
    /\ Len(x.v) >= Len(Scheme) + 1
    /\ SubSeq(x.v, 1, Len(Scheme)) = Scheme
    /\ x.v[Len(Scheme) + 1] = Host

\* the least index >= i of tok in s, or 0
RECURSIVE IndexFrom(_, _, _)
IndexFrom(s, tok, i) ==
    IF i > Len(s) THEN 0
    ELSE IF s[i] = tok THEN i
    ELSE IndexFrom(s, tok, i + 1)

\* the greatest index >= i of tok in s, or 0
RECURSIVE LastIndexFrom(_, _, _)
LastIndexFrom(s, tok, i) ==
    IF i > Len(s) THEN 0
    ELSE IF LastIndexFrom(s, tok, i + 1) # 0 THEN LastIndexFrom(s, tok, i + 1)
    ELSE IF s[i] = tok THEN i
    ELSE 0

\* KeyMatchEnd with a greedy ".+": the match runs to the last "/"
KeyMatchEnd_greedy(s, i) ==
    IF /\ i + 2 <= Len(s)
       /\ s[i] = "/" /\ s[i + 1] = "d" /\ s[i + 2] = "/"
    THEN LastIndexFrom(s, "/", i + 4)
    ELSE 0

\* re.compile(r"\/d\/.+?(?=\/)") matching at index i: "/d/", then at least one
\* character, up to the first "/" that follows; the index of that "/", or 0
KeyMatchEnd(s, i) ==
    IF /\ i + 2 <= Len(s)
       /\ s[i] = "/" /\ s[i + 1] = "d" /\ s[i + 2] = "/"
    THEN IndexFrom(s, "/", i + 4)
    ELSE 0

\* r.findall(spreadsheet)[0], searching from i: the leftmost match, or <<>>
RECURSIVE FirstKeyMatch(_, _)
FirstKeyMatch(s, i) ==
    IF i > Len(s) THEN <<>>
    ELSE IF KeyMatchEnd(s, i) # 0 THEN SubSeq(s, i, KeyMatchEnd(s, i) - 1)
    ELSE FirstKeyMatch(s, i + 1)

\* urlparse(spreadsheet).fragment: what follows the first "#"
UrlFragment(s) ==
    IF IndexFrom(s, "#", 1) = 0 THEN <<>>
    ELSE Slice(s, IndexFrom(s, "#", 1) + 1, Len(s))

\* urlparse(spreadsheet).query: between the first "?" and the fragment
UrlQuery(s) ==
    LET body == IF IndexFrom(s, "#", 1) = 0 THEN s
                ELSE Slice(s, 1, IndexFrom(s, "#", 1) - 1)
    IN IF IndexFrom(body, "?", 1) = 0 THEN <<>>
       ELSE Slice(body, IndexFrom(body, "?", 1) + 1, Len(body))

\* the longest run of word tokens of s from index i on: the index after it
RECURSIVE WordRunEnd(_, _)
WordRunEnd(s, i) ==
    IF i <= Len(s) /\ s[i] \in WordTokens THEN WordRunEnd(s, i + 1) ELSE i

\* re.compile(r"gid=\w+").findall(frag)[0][4:], searching from i, or <<>>
RECURSIVE FirstFragmentGid(_, _)
FirstFragmentGid(frag, i) ==
    IF i + 2 > Len(frag) THEN <<>>
    ELSE IF /\ frag[i] = "gid" /\ frag[i + 1] = "="
            /\ WordRunEnd(frag, i + 2) > i + 2
         THEN SubSeq(frag, i + 2, WordRunEnd(frag, i + 2) - 1)
         ELSE FirstFragmentGid(frag, i + 1)

\* parse_qs(query).get("gid", [""])[0], reading the parameters from index i:
\* the value of the first gid parameter that is not blank, or <<>>
RECURSIVE FirstQueryGid(_, _)
FirstQueryGid(q, i) ==
    IF i > Len(q) THEN <<>>
    ELSE LET amp == IndexFrom(q, "&", i)
             stop == IF amp = 0 THEN Len(q) + 1 ELSE amp
             param == Slice(q, i, stop - 1)
         IN IF Len(param) >= 3 /\ param[1] = "gid" /\ param[2] = "="
            THEN Slice(param, 3, Len(param))
            ELSE FirstQueryGid(q, stop + 1)

ExportPrefix == <<"https://docs.google.com/spreadsheet/ccc?key=">>
ExportSuffix == <<"&output=csv">>
GidParam == <<"&gid=">>

\* the except branch of _get_download_as_csv_url: the input is the key
BareKeyUrl(spreadsheet, worksheet) ==
    ExportPrefix \o Format(spreadsheet) \o ExportSuffix
        \o (IF Truthy(worksheet) THEN GidParam \o Format(worksheet) ELSE <<>>)

\* the gid of a URL: the fragment's, else the query's, replaced by a true worksheet
FinalGid(s, worksheet) ==
    LET found_gid == FirstFragmentGid(UrlFragment(s), 1)
        qs_gid == FirstQueryGid(UrlQuery(s), 1)
        url_gid == IF found_gid # <<>> THEN found_gid ELSE qs_gid
    IN IF Truthy(worksheet) THEN Format(worksheet) ELSE url_gid

\* GSheetsPublicSpreadsheetClient._get_download_as_csv_url
_get_download_as_csv_url(spreadsheet, worksheet) ==
    IF validate_url(spreadsheet) /\ FirstKeyMatch(spreadsheet.v, 1) # <<>>
    THEN LET found == FirstKeyMatch(spreadsheet.v, 1)
             key == Slice(found, 4, Len(found))
             final_gid == FinalGid(spreadsheet.v, worksheet)
         IN ExportPrefix \o key \o ExportSuffix
                \o (IF final_gid # <<>> THEN GidParam \o final_gid ELSE <<>>)
    ELSE BareKeyUrl(spreadsheet, worksheet)

---------------------------------------------------------------------------
(* The inputs of the calls *)

\* segments of a URL path; "" is the empty segment (two slashes in a row)
Segs == {"d", "k1", "edit", ""}

\* "/" + "/".join(segs)
RECURSIVE PathText(_)
PathText(segs) ==
    IF segs = <<>> THEN <<>>
    ELSE <<"/">> \o (IF Head(segs) = "" THEN <<>> ELSE <<Head(segs)>>)
            \o PathText(Tail(segs))

Paths == {PathText(segs) : segs \in UNION {[1..n -> Segs] : n \in 0..MaxSegs}}

Queries == {<<>>,
            <<"?", "usp", "=", "sharing", "&", "gid", "=", "&", "gid", "=", "9">>}

Fragments == {<<>>,
              <<"#", "gid", "=", "5">>,
              <<"#", "range", "=", "x", "/", "5">>}

\* the well-formed URLs tried
Urls == {PyStr(Scheme \o <<Host>> \o p \o q \o f) :
            p \in Paths, q \in Queries, f \in Fragments}

\* strings that are no URL: a key, and a URL without its scheme
BareKeys == {PyStr(<<"k2">>),
             PyStr(<<Host, "/", "spreadsheets", "/", "d", "/", "k1", "/", "edit">>)}

\* worksheet arguments of _get_download_as_csv_url: None, grid ids, a string
UrlWorksheetArgs == {PyNone, PyInt("0"), PyInt("7"), PyStr(<<"Sheet2">>)}

\* worksheet arguments of the connection's operations: None and grid ids
\* (public) or indexes (service account)
WorksheetArgs == {PyNone, PyInt("0"), PyInt("7")}

\* the default worksheets set_default is given
DefaultWorksheetArgs == {PyNone, PyStr(<<"Sheet2">>)}

\* the spreadsheet of the tests, with a gid in its fragment
UrlA == PyStr(Scheme \o <<Host, "/", "spreadsheets", "/", "d", "/", "k1", "/",
                          "edit", "#", "gid", "=", "5">>)

\* spreadsheet arguments of the connection's operations
SpreadsheetArgs == {PyNone, UrlA, PyStr(<<"Book">>)}

FolderArgs == {PyNone, PyStr(<<"F1">>)}

\* the default spreadsheets set_default is given
DefaultSpreadsheetArgs == {UrlA, PyStr(<<"Book">>), PyStr(<<"New">>)}

\* worksheet arguments of the service account's read: None, an index and a
\* title
ServiceAccountWorksheetArgs == {PyNone, PyInt("7"), PyStr(<<"Sheet2">>)}

\* worksheet arguments of the service account's update and clear
WriteWorksheetArgs == {PyNone, PyStr(<<"Sheet2">>)}

\* worksheet arguments of the service account's create
CreateWorksheetArgs == {PyStr(<<"tmp">>)}

\* evaluate_formulas arguments
EvaluateFormulasArgs == {PyTrue, PyFalse}

\* the **options of a read or query: none, and one read_csv takes
OptionArgs == {[n \in {} |-> PyNone], [n \in {"usecols"} |-> PyStr(<<"A">>)]}

\* data arguments of create and update: None (as a DataFrame it has no cell
\* and is 0 x 0), a DataFrame of 2 x 2, and a number, which is no table
NoData == [kind |-> "none", rows |-> "blank", shape |-> <<0, 0>>]
NotData == [kind |-> "other"]
DataArgs == {NoData, [kind |-> "frame", rows |-> "dataA", shape |-> <<2, 2>>],
             NotData}

\* the names a SQL string may reference
TableNames == {"Sheet1", "Sheet2", "tmp"}

\* a SQL string, as what the program reads of it: Parser(sql).tables (no name
\* twice) and the statement it runs; the statements are SELECTs over any of
\* the names and an INSERT INTO "Sheet1"
SqlArgs ==
    {[shape |-> "select", tables |-> t] :
        t \in {q \in UNION {[1..n -> TableNames] : n \in 0..MaxTables} :
                  \A i, j \in DOMAIN q : q[i] = q[j] => i = j}}
        \cup {[shape |-> "insert", tables |-> <<"Sheet1">>]}

NoSql == [shape |-> "none", tables |-> <<>>]

\* the type, and the spreadsheet and worksheet, of the secrets tried
SecretsTypes == {PyNone, PyStr(<<>>), PyStr(<<"service_account">>),
                 PyStr(<<"other">>)}
SecretsDefaults == {<<PyNone, PyNone>>, <<UrlA, PyNone>>,
                    <<PyStr(<<"Book">>), PyInt("5")>>}

SecretsDicts == {[type |-> t, spreadsheet |-> d[1], worksheet |-> d[2]] :
                    t \in SecretsTypes, d \in SecretsDefaults}

---------------------------------------------------------------------------
(* Tables and calls *)

\* **options with no option in it
NoOptions == [n \in {} |-> PyNone]

\* read_csv(url, **options): the rows the export URL serves, as the options
\* have them read
ReadCsv(url, options) == [src |-> "csv", url |-> url, options |-> options]

\* read_csv(url)
Csv(url) == ReadCsv(url, NoOptions)

\* DataFrame()
EmptyFrame == [src |-> "empty"]

\* in_memory_db.sql(query=sql).to_df(): decided by the statement and by the
\* rows of the tables it references, in the order it references them
Execute(sql, db) ==
    [kind |-> "answer", shape |-> sql.shape,
     inputs |-> [i \in DOMAIN sql.tables |-> db[sql.tables[i]]]]

NoResult == [kind |-> "none"]

Call(op, spreadsheet, worksheet, folder_id, sql, events, exc, result) ==
    [op |-> op, spreadsheet |-> spreadsheet, worksheet |-> worksheet,
     folder_id |-> folder_id, sql |-> sql, events |-> events, exc |-> exc,
     result |-> result]

NoCall == Call("none", PyNone, PyNone, PyNone, NoSql, <<>>, "", NoResult)

---------------------------------------------------------------------------
(* GSheetsConnection._connect and GSheetsClient *)

\* _connect testing that a type is there, not which
_connect_any_type(secrets_dict) ==
    IF Truthy(secrets_dict.type) THEN "service_account" ELSE "public"

\* GSheetsConnection._connect: the client built from the secrets
_connect(secrets_dict) ==
    IF secrets_dict.type = PyStr(<<"service_account">>)
    THEN "service_account"
    ELSE "public"

\* GSheetsClient.__init__ runs inside _connect
Connect ==
    /\ pc = "new"
    /\ pc' = "ready"
    /\ client' = _connect(secrets)
    /\ _spreadsheet' = secrets.spreadsheet
    /\ _worksheet' = secrets.worksheet
    /\ UNCHANGED <<secrets, book, created, writes, last, cache>>

\* SetDefault keeping the stored worksheet when none is given
SetDefault_keeps_worksheet ==
    /\ pc = "ready"
    /\ \E spreadsheet \in DefaultSpreadsheetArgs,
          worksheet \in DefaultWorksheetArgs :
        /\ _spreadsheet' = spreadsheet
        /\ _worksheet' = (IF worksheet = PyNone THEN _worksheet ELSE worksheet)
        /\ last' = Call("set_default", spreadsheet, worksheet, PyNone, NoSql,
                        <<>>, "", NoResult)
    /\ UNCHANGED <<pc, secrets, client, book, created, writes, cache>>

\* GSheetsClient.set_default
SetDefault ==
    /\ pc = "ready"
    /\ \E spreadsheet \in DefaultSpreadsheetArgs,
          worksheet \in DefaultWorksheetArgs :
        /\ _spreadsheet' = spreadsheet
        /\ _worksheet' = worksheet
        /\ last' = Call("set_default", spreadsheet, worksheet, PyNone, NoSql,
                        <<>>, "", NoResult)
    /\ UNCHANGED <<pc, secrets, client, book, created, writes, cache>>

---------------------------------------------------------------------------
(* GSheetsPublicSpreadsheetClient *)

\* self._get_download_as_csv_url(spreadsheet=spreadsheet, worksheet=worksheet)
UrlEvent(spreadsheet, worksheet, url) ==
    [e |-> "url", spreadsheet |-> spreadsheet, worksheet |-> worksheet,
     url |-> url]

\* the keyword arguments the connection passes on besides spreadsheet,
\* worksheet, ttl and max_entries: evaluate_formulas, folder_id and **options
Kwargs(evaluate_formulas, folder_id, options) ==
    [n \in DOMAIN options \cup {"evaluate_formulas", "folder_id"} |->
        CASE n = "evaluate_formulas" -> evaluate_formulas
          [] n = "folder_id" -> folder_id
          [] OTHER -> options[n]]

\* options.pop(arg, None)
Pop(options, arg) == [n \in DOMAIN options \ {arg} |-> options[n]]

\* PublicOptions leaving folder_id among the options
PublicOptions_keeps_folder_id(options) == Pop(options, "evaluate_formulas")

\* for arg in ["evaluate_formulas", "folder_id"]: options.pop(arg, None)
PublicOptions(options) == Pop(Pop(options, "evaluate_formulas"), "folder_id")

\* a call of the public client with the keyword arguments it was given and
\* the arguments its cached function was called with
KwCall(call, options, cache_key) ==
    [f \in DOMAIN call \cup {"options", "cache_key"} |->
        CASE f = "options" -> options
          [] f = "cache_key" -> cache_key
          [] OTHER -> call[f]]

\* the worksheet read passes to _get_download_as_csv_url
PublicReadWorksheet(worksheet) ==
    IF ~Truthy(worksheet) /\ Truthy(_worksheet) THEN _worksheet ELSE worksheet

\* GSheetsPublicSpreadsheetClient.read, as the call it leaves behind; options
\* are its **options, evaluate_formulas and folder_id among them
PublicReadOptionsCall(spreadsheet, worksheet, options) ==
    LET sp == PyOr(spreadsheet, _spreadsheet)
        ws == PublicReadWorksheet(worksheet)
        url == _get_download_as_csv_url(sp, ws)
        passed == PublicOptions(options)
    IN IF ~Truthy(sp)
       THEN KwCall(Call("read", spreadsheet, worksheet, options["folder_id"],
                        NoSql, <<>>, "ValueError", NoResult),
                   options, <<>>)
       ELSE KwCall(Call("read", spreadsheet, worksheet, options["folder_id"],
                        NoSql,
                        <<UrlEvent(sp, ws, url),
                          [e |-> "read_csv", url |-> url, options |-> passed]>>,
                        "", [kind |-> "table", rows |-> ReadCsv(url, passed)]),
                   options, <<"_get_as_dataframe", url, passed>>)

\* read(spreadsheet=..., worksheet=..., folder_id=...): evaluate_formulas is
\* the connection's default, True, and there is no further option
PublicReadCall(spreadsheet, worksheet, folder_id) ==
    PublicReadOptionsCall(spreadsheet, worksheet,
                          Kwargs(PyTrue, folder_id, NoOptions))

PublicRead ==
    /\ pc = "ready" /\ client = "public"
    /\ \E spreadsheet \in SpreadsheetArgs, worksheet \in WorksheetArgs :
        last' = PublicReadCall(spreadsheet, worksheet, PyNone)
    /\ UNCHANGED <<pc, secrets, client, _spreadsheet, _worksheet, book, created,
                   writes, cache>>

\* the worksheet query passes to _get_download_as_csv_url
PublicQueryWorksheet(worksheet) == PyOr(worksheet, _worksheet)

\* PublicTableRows fetching the worksheet the table is named after
PublicTableRows_by_name(url, name, options) ==
    ReadCsv(url \o GidParam \o <<name>>, options)

\* the rows _query binds the table named name to
PublicTableRows(url, name, options) == ReadCsv(url, options)

\* the loop of _query: one read_csv and one CREATE TABLE for each table name
PublicLoadEvents(url, tables, options) ==
    [i \in 1..(2 * Len(tables)) |->
        IF i % 2 = 1
        THEN [e |-> "read_csv", url |-> url, options |-> options]
        ELSE [e |-> "create_table", name |-> tables[i \div 2],
              rows |-> PublicTableRows(url, tables[i \div 2], options)]]

\* PublicQueryCall with the export URL built and fetched before the check
PublicQueryCall_unchecked(sql, spreadsheet, worksheet, folder_id) ==
    LET sp == PyOr(spreadsheet, _spreadsheet)
        ws == PublicQueryWorksheet(worksheet)
        url == _get_download_as_csv_url(sp, ws)
        db == [name \in {sql.tables[i] : i \in DOMAIN sql.tables} |->
                  PublicTableRows(url, name, NoOptions)]
    IN Call("query", spreadsheet, worksheet, folder_id, sql,
            <<UrlEvent(sp, ws, url)>>
                \o PublicLoadEvents(url, sql.tables, NoOptions)
                \o (IF Truthy(sp) THEN <<[e |-> "execute", sql |-> sql]>>
                    ELSE <<>>),
            IF Truthy(sp) THEN "" ELSE "ValueError",
            IF Truthy(sp) THEN Execute(sql, db) ELSE NoResult)

\* GSheetsPublicSpreadsheetClient.query, as the call it leaves behind;
\* options are its **options, evaluate_formulas and folder_id among them
PublicQueryOptionsCall(sql, spreadsheet, worksheet, options) ==
    LET sp == PyOr(spreadsheet, _spreadsheet)
        ws == PublicQueryWorksheet(worksheet)
        url == _get_download_as_csv_url(sp, ws)
        passed == PublicOptions(options)
        db == [name \in {sql.tables[i] : i \in DOMAIN sql.tables} |->
                  PublicTableRows(url, name, passed)]
    IN IF ~Truthy(sp)
       THEN KwCall(Call("query", spreadsheet, worksheet, options["folder_id"],
                        sql, <<>>, "ValueError", NoResult),
                   options, <<>>)
       ELSE KwCall(Call("query", spreadsheet, worksheet, options["folder_id"],
                        sql,
                        <<UrlEvent(sp, ws, url)>>
                            \o PublicLoadEvents(url, sql.tables, passed)
                            \o <<[e |-> "execute", sql |-> sql]>>,
                        "", Execute(sql, db)),
                   options, <<"_query", sql, url, passed>>)

\* query(sql, spreadsheet=..., worksheet=..., folder_id=...):
\* evaluate_formulas is the connection's default, True, and there is no
\* further option
PublicQueryCall(sql, spreadsheet, worksheet, folder_id) ==
    PublicQueryOptionsCall(sql, spreadsheet, worksheet,
                           Kwargs(PyTrue, folder_id, NoOptions))

PublicQuery ==
    /\ pc = "ready" /\ client = "public"
    /\ \E sql \in SqlArgs, spreadsheet \in SpreadsheetArgs,
          worksheet \in WorksheetArgs :
        last' = PublicQueryCall(sql, spreadsheet, worksheet, PyNone)
    /\ UNCHANGED <<pc, secrets, client, _spreadsheet, _worksheet, book, created,
                   writes, cache>>

\* read with evaluate_formulas, folder_id and further options
PublicReadOptions ==
    /\ pc = "ready" /\ client = "public"
    /\ \E spreadsheet \in SpreadsheetArgs, worksheet \in WorksheetArgs,
          evaluate_formulas \in EvaluateFormulasArgs, folder_id \in FolderArgs,
          options \in OptionArgs :
        last' = PublicReadOptionsCall(spreadsheet, worksheet,
                                      Kwargs(evaluate_formulas, folder_id,
                                             options))
    /\ UNCHANGED <<pc, secrets, client, _spreadsheet, _worksheet, book, created,
                   writes, cache>>

\* query with evaluate_formulas, folder_id and further options
PublicQueryOptions ==
    /\ pc = "ready" /\ client = "public"
    /\ \E sql \in SqlArgs, spreadsheet \in SpreadsheetArgs,
          evaluate_formulas \in EvaluateFormulasArgs, folder_id \in FolderArgs,
          options \in OptionArgs :
        last' = PublicQueryOptionsCall(sql, spreadsheet, PyNone,
                                       Kwargs(evaluate_formulas, folder_id,
                                              options))
    /\ UNCHANGED <<pc, secrets, client, _spreadsheet, _worksheet, book, created,
                   writes, cache>>

\* PublicUnsupportedCall with a clear that goes through
PublicUnsupportedCall_clear_allowed(op, spreadsheet, worksheet, folder_id) ==
    IF op = "clear"
    THEN Call(op, spreadsheet, worksheet, folder_id, NoSql,
              <<[e |-> "clear"]>>, "", NoResult)
    ELSE Call(op, spreadsheet, worksheet, folder_id, NoSql,
              <<>>, "UnsupportedOperationException", NoResult)

\* GSheetsPublicSpreadsheetClient.create, update and clear raise at once
PublicUnsupportedCall(op, spreadsheet, worksheet, folder_id) ==
    Call(op, spreadsheet, worksheet, folder_id, NoSql,
         <<>>, "UnsupportedOperationException", NoResult)

PublicCreate ==
    /\ pc = "ready" /\ client = "public"
    /\ \E spreadsheet \in SpreadsheetArgs, worksheet \in WorksheetArgs,
          folder_id \in FolderArgs :
        last' = PublicUnsupportedCall("create", spreadsheet, worksheet, folder_id)
    /\ UNCHANGED <<pc, secrets, client, _spreadsheet, _worksheet, book, created,
                   writes, cache>>

PublicUpdate ==
    /\ pc = "ready" /\ client = "public"
    /\ \E spreadsheet \in SpreadsheetArgs, worksheet \in WorksheetArgs,
          folder_id \in FolderArgs :
        last' = PublicUnsupportedCall("update", spreadsheet, worksheet, folder_id)
    /\ UNCHANGED <<pc, secrets, client, _spreadsheet, _worksheet, book, created,
                   writes, cache>>

PublicClear ==
    /\ pc = "ready" /\ client = "public"
    /\ \E spreadsheet \in SpreadsheetArgs, worksheet \in WorksheetArgs,
          folder_id \in FolderArgs :
        last' = PublicUnsupportedCall("clear", spreadsheet, worksheet, folder_id)
    /\ UNCHANGED <<pc, secrets, client, _spreadsheet, _worksheet, book, created,
                   writes, cache>>

---------------------------------------------------------------------------
(* GSheetsServiceAccountClient *)

\* the one spreadsheet the service account starts with
BookTitle == PyStr(<<"Book">>)
BookFolder == PyStr(<<"F1">>)
BookUrl == UrlA

\* the worksheets it starts with
Sheet1 == [title |-> "Sheet1", rows |-> "rows1"]
Sheet2 == [title |-> "Sheet2", rows |-> "rows2"]

\* the folders of the remote drive
Folders == {BookFolder}

\* the remote spreadsheets, oldest first: the first is Book
Drive ==
    <<[title |-> BookTitle, folder_id |-> BookFolder, sheets |-> book]>>
        \o created

\* a gspread Spreadsheet: sp is its place in Drive
SpreadsheetObject(sp) == [ty |-> "Spreadsheet", v |-> <<sp>>]

\* a gspread Worksheet: ws is its place among the worksheets of Drive[sp]
WorksheetObject(sp, ws) == [ty |-> "Worksheet", v |-> <<sp, ws>>]

\* OrDefault with the default never taken
OrDefault_as_given(x, default) == x

\* if not x and default: x = default
OrDefault(x, default) == IF ~Truthy(x) /\ Truthy(default) THEN default ELSE x

\* gspread Client.open_by_url(url): whether the spreadsheet is found (the
\* URLs of the spreadsheets made later are not among those tried)
ClientOpenByUrl(url) == url = BookUrl

\* the place in Drive, from i on, of the first spreadsheet of that title, in
\* that folder when one is given; 0 when there is none
RECURSIVE FirstTitled(_, _, _)
FirstTitled(title, folder_id, i) ==
    IF i > Len(Drive) THEN 0
    ELSE IF /\ Drive[i].title = title
            /\ Truthy(folder_id) => Drive[i].folder_id = folder_id
    THEN i
    ELSE FirstTitled(title, folder_id, i + 1)

\* gspread Client.open(title, folder_id): whether a spreadsheet of that title
\* is found, in that folder when one is given
ClientOpen(title, folder_id) == FirstTitled(title, folder_id, 1) # 0

\* self._client.open_by_url(url=spreadsheet), given whether the spreadsheet
\* is found; sp is the place in Drive of the spreadsheet opened
OpenedByUrl(url, found) ==
    [events |-> <<[e |-> "open_by_url", url |-> url, found |-> found]>>,
     exc |-> IF found THEN "" ELSE "SpreadsheetNotFound",
     sp |-> IF found THEN 1 ELSE 0]

\* self._client.open(title=spreadsheet, folder_id=folder_id), given whether
\* the spreadsheet is found and its place in Drive
OpenedByTitle(title, folder_id, found, place) ==
    [events |-> <<[e |-> "open", title |-> title, folder_id |-> folder_id,
                   found |-> found]>>,
     exc |-> IF found THEN "" ELSE "SpreadsheetNotFound",
     sp |-> place]

\* the try of _open_spreadsheet: a URL is opened by URL, anything else by
\* title
OpenByUrlOrTitle(spreadsheet, folder_id) ==
    IF validate_url(spreadsheet)
    THEN OpenedByUrl(spreadsheet, ClientOpenByUrl(spreadsheet))
    ELSE OpenedByTitle(spreadsheet, folder_id,
                       ClientOpen(spreadsheet, folder_id),
                       FirstTitled(spreadsheet, folder_id, 1))

\* GSheetsServiceAccountClient._open_spreadsheet; sp is the place in Drive of
\* the spreadsheet opened
_open_spreadsheet(spreadsheet, folder_id) ==
    IF spreadsheet.ty = "Spreadsheet"
    THEN [events |-> <<>>, exc |-> "", sp |-> spreadsheet.v[1]]
    ELSE OpenByUrlOrTitle(OrDefault(spreadsheet, _spreadsheet),
                          OrDefault(folder_id, _worksheet))

\* the index in sheets of the worksheet titled title, or 0
RECURSIVE TitleIndex(_, _, _)
TitleIndex(sheets, title, i) ==
    IF i > Len(sheets) THEN 0
    ELSE IF <<sheets[i].title>> = title THEN i
    ELSE TitleIndex(sheets, title, i + 1)

\* int(x) of an integer value
Num(x) ==
    CASE x.v = <<"0">> -> 0
      [] x.v = <<"1">> -> 1
      [] x.v = <<"5">> -> 5
      [] x.v = <<"7">> -> 7
      [] x.v = <<"9">> -> 9

\* spreadsheet.worksheet(worksheet) on the spreadsheet opened, given the
\* place ws of the worksheet of that title (0 when there is none)
SelectedByTitle(opened, worksheet, ws) ==
    [events |-> Append(opened.events, [e |-> "worksheet", title |-> worksheet]),
     exc |-> IF ws = 0 THEN "WorksheetNotFound" ELSE "",
     sp |-> opened.sp,
     ws |-> ws]

\* spreadsheet.get_worksheet(index) on the spreadsheet opened, given the
\* number of its worksheets
SelectedByIndex(opened, index, count) ==
    [events |-> Append(opened.events, [e |-> "get_worksheet", index |-> index]),
     exc |-> IF index + 1 > count THEN "WorksheetNotFound" ELSE "",
     sp |-> opened.sp,
     ws |-> IF index + 1 > count THEN 0 ELSE index + 1]

\* the spreadsheet _select_worksheet works on: a str is opened, anything else
\* is taken as it is (place 0: no Spreadsheet)
SelectSpreadsheet(spreadsheet, folder_id) ==
    IF spreadsheet.ty = "str" THEN _open_spreadsheet(spreadsheet, folder_id)
    ELSE [events |-> <<>>, exc |-> "",
          sp |-> IF spreadsheet.ty = "Spreadsheet" THEN spreadsheet.v[1]
                 ELSE 0]

\* SelectIn looking up by index a string that reads as a number
SelectIn_number_by_index(opened, worksheet) ==
    IF opened.exc # ""
    THEN [events |-> opened.events, exc |-> opened.exc, sp |-> 0, ws |-> 0]
    ELSE IF opened.sp = 0
    THEN [events |-> opened.events, exc |-> "AttributeError", sp |-> 0,
          ws |-> 0]
    ELSE IF worksheet.ty = "str" /\ worksheet.v # <<"1">>
    THEN SelectedByTitle(opened, worksheet,
                         TitleIndex(Drive[opened.sp].sheets, worksheet.v, 1))
    ELSE SelectedByIndex(opened,
                         IF ~Truthy(worksheet) THEN 0 ELSE Num(worksheet),
                         Len(Drive[opened.sp].sheets))

\* the end of _select_worksheet: the worksheet is looked up by title or by
\* index in the spreadsheet opened
SelectIn(opened, worksheet) ==
    IF opened.exc # ""
    THEN [events |-> opened.events, exc |-> opened.exc, sp |-> 0, ws |-> 0]
    ELSE IF opened.sp = 0
    THEN [events |-> opened.events, exc |-> "AttributeError", sp |-> 0,
          ws |-> 0]
    ELSE IF worksheet.ty = "str"
    THEN SelectedByTitle(opened, worksheet,
                         TitleIndex(Drive[opened.sp].sheets, worksheet.v, 1))
    ELSE SelectedByIndex(opened,
                         IF ~Truthy(worksheet) THEN 0 ELSE Num(worksheet),
                         Len(Drive[opened.sp].sheets))

\* GSheetsServiceAccountClient._select_worksheet; sp is the place in Drive of
\* the spreadsheet and ws the worksheet's place in it
_select_worksheet(spreadsheet, worksheet, folder_id) ==
    IF worksheet.ty = "Worksheet"
    THEN [events |-> <<>>, exc |-> "", sp |-> worksheet.v[1],
          ws |-> worksheet.v[2]]
    ELSE SelectIn(SelectSpreadsheet(OrDefault(spreadsheet, _spreadsheet),
                                    OrDefault(folder_id, _worksheet)),
                  worksheet)

\* get_as_dataframe(worksheet): the rows of the worksheet at place ws of
\* Drive[sp]
WorksheetRows(sp, ws) ==
    [src |-> "worksheet", title |-> Drive[sp].sheets[ws].title,
     rows |-> Drive[sp].sheets[ws].rows]

\* ServiceAccountReadRun answering an empty table for a spreadsheet not found
ServiceAccountReadRun_not_found_is_empty(spreadsheet, worksheet, folder_id) ==
    LET sp == OrDefault(spreadsheet, _spreadsheet)
        fid == OrDefault(folder_id, _worksheet)
        sel == _select_worksheet(sp, worksheet, fid)
    IN IF sel.exc = "SpreadsheetNotFound"
       THEN [events |-> sel.events, exc |-> "", rows |-> EmptyFrame]
       ELSE IF sel.exc # ""
       THEN [events |-> sel.events, exc |-> sel.exc, rows |-> EmptyFrame]
       ELSE [events |-> Append(sel.events,
                               [e |-> "get_as_dataframe",
                                title |-> Drive[sel.sp].sheets[sel.ws].title]),
             exc |-> "", rows |-> WorksheetRows(sel.sp, sel.ws)]

\* get_as_dataframe(worksheet=self._select_worksheet(...)), given what
\* _select_worksheet answers
ReadSelected(sel) ==
    IF sel.exc # ""
    THEN [events |-> sel.events, exc |-> sel.exc, rows |-> EmptyFrame]
    ELSE [events |-> Append(sel.events,
                            [e |-> "get_as_dataframe",
                             title |-> Drive[sel.sp].sheets[sel.ws].title]),
          exc |-> "", rows |-> WorksheetRows(sel.sp, sel.ws)]

\* GSheetsServiceAccountClient.read: its events, its exception and its rows
ServiceAccountReadRun(spreadsheet, worksheet, folder_id) ==
    ReadSelected(_select_worksheet(OrDefault(spreadsheet, _spreadsheet),
                                   worksheet,
                                   OrDefault(folder_id, _worksheet)))

\* GSheetsServiceAccountClient.read, as the call it leaves behind
ServiceAccountReadCall(spreadsheet, worksheet, folder_id) ==
    LET run == ServiceAccountReadRun(spreadsheet, worksheet, folder_id)
    IN Call("read", spreadsheet, worksheet, folder_id, NoSql, run.events,
            run.exc,
            IF run.exc = "" THEN [kind |-> "table", rows |-> run.rows]
            ELSE NoResult)

\* ServiceAccountRead storing the spreadsheet it is given
ServiceAccountRead_stores_spreadsheet ==
    /\ pc = "ready" /\ client = "service_account"
    /\ \E spreadsheet \in SpreadsheetArgs,
          worksheet \in ServiceAccountWorksheetArgs, folder_id \in FolderArgs :
        /\ last' = ServiceAccountReadCall(spreadsheet, worksheet, folder_id)
        /\ _spreadsheet' = OrDefault(spreadsheet, _spreadsheet)
    /\ UNCHANGED <<pc, secrets, client, _worksheet, book, created, writes, cache>>

ServiceAccountRead ==
    /\ pc = "ready" /\ client = "service_account"
    /\ \E spreadsheet \in SpreadsheetArgs,
          worksheet \in ServiceAccountWorksheetArgs, folder_id \in FolderArgs :
        last' = ServiceAccountReadCall(spreadsheet, worksheet, folder_id)
    /\ UNCHANGED <<pc, secrets, client, _spreadsheet, _worksheet, book, created,
                   writes, cache>>

\* the rows _query binds the table named by worksheet to, given the rows read
ServiceAccountTableRows(worksheet, df) == df

\* one pass of the loop of _query for the table name: sel is what
\* _select_worksheet answers, rd what read answers and rest what the later
\* passes do; the worksheet read is bound to a table of its name, and an
\* exception ends the loop
ServiceAccountLoadTable(name, worksheet, sel, rd, rest) ==
    LET made(df) == [e |-> "create_table", name |-> name,
                     rows |-> ServiceAccountTableRows(worksheet, df)]
    IN IF sel.exc # ""
       THEN [events |-> sel.events, exc |-> sel.exc, rows |-> <<>>]
       ELSE IF sel.ws = 0
       THEN [events |-> sel.events \o <<made(EmptyFrame)>> \o rest.events,
             exc |-> rest.exc,
             rows |-> <<made(EmptyFrame).rows>> \o rest.rows]
       ELSE IF rd.exc # ""
       THEN [events |-> sel.events \o rd.events, exc |-> rd.exc, rows |-> <<>>]
       ELSE [events |-> sel.events \o rd.events \o <<made(rd.rows)>>
                           \o rest.events,
             exc |-> rest.exc,
             rows |-> <<made(rd.rows).rows>> \o rest.rows]

\* the loop of _query from the i-th table name on
RECURSIVE ServiceAccountLoad(_, _, _, _)
ServiceAccountLoad(tables, i, spreadsheet, folder_id) ==
    IF i > Len(tables) THEN [events |-> <<>>, exc |-> "", rows |-> <<>>]
    ELSE ServiceAccountLoadTable(
            tables[i], PyStr(<<tables[i]>>),
            _select_worksheet(spreadsheet, PyStr(<<tables[i]>>), folder_id),
            ServiceAccountReadRun(spreadsheet, PyStr(<<tables[i]>>), folder_id),
            ServiceAccountLoad(tables, i + 1, spreadsheet, folder_id))

\* ServiceAccountQueryEvents running the statement before the tables are loaded
ServiceAccountQueryEvents_execute_first(sql, loaded) ==
    <<[e |-> "execute", sql |-> sql]>> \o loaded.events

\* what _query does: the tables are loaded, then the statement runs
ServiceAccountQueryEvents(sql, loaded) ==
    loaded.events \o <<[e |-> "execute", sql |-> sql]>>

\* the call a query leaves behind once its tables are loaded
ServiceAccountQueryLoaded(sql, spreadsheet, worksheet, folder_id, loaded) ==
    LET db == [name \in {sql.tables[i] : i \in DOMAIN sql.tables} |->
                  loaded.rows[CHOOSE i \in DOMAIN sql.tables :
                                  sql.tables[i] = name]]
    IN IF loaded.exc # ""
       THEN Call("query", spreadsheet, worksheet, folder_id, sql,
                 loaded.events, loaded.exc, NoResult)
       ELSE Call("query", spreadsheet, worksheet, folder_id, sql,
                 ServiceAccountQueryEvents(sql, loaded), "", Execute(sql, db))

\* GSheetsServiceAccountClient.query, as the call it leaves behind
ServiceAccountQueryCall(sql, spreadsheet, worksheet, folder_id) ==
    ServiceAccountQueryLoaded(
        sql, spreadsheet, worksheet, folder_id,
        ServiceAccountLoad(sql.tables, 1, OrDefault(spreadsheet, _spreadsheet),
                           OrDefault(folder_id, _worksheet)))

\* ServiceAccountQuery writing the rows of an INSERT back to the first
\* worksheet
ServiceAccountQuery_writes_back ==
    /\ pc = "ready" /\ client = "service_account"
    /\ \E sql \in SqlArgs, spreadsheet \in SpreadsheetArgs,
          folder_id \in FolderArgs :
        /\ last' = ServiceAccountQueryCall(sql, spreadsheet, PyNone, folder_id)
        /\ book' = IF sql.shape = "insert" /\ last'.exc = ""
                   THEN [book EXCEPT ![1].rows = "dataA"]
                   ELSE book
    /\ UNCHANGED <<pc, secrets, client, _spreadsheet, _worksheet, created,
                   writes, cache>>

ServiceAccountQuery ==
    /\ pc = "ready" /\ client = "service_account"
    /\ \E sql \in SqlArgs, spreadsheet \in SpreadsheetArgs,
          folder_id \in FolderArgs :
        last' = ServiceAccountQueryCall(sql, spreadsheet, PyNone, folder_id)
    /\ UNCHANGED <<pc, secrets, client, _spreadsheet, _worksheet, book, created,
                   writes, cache>>

\* is_dataframe_compatible(data) or type(data) is ndarray
HasFrame(data) == data.kind \in {"none", "frame", "ndarray"}

\* convert_anything_to_df(data), DataFrame.from_records(data)
ToFrame(data) ==
    IF data.kind = "none" THEN EmptyFrame
    ELSE [src |-> "data", rows |-> data.rows]

\* the worksheets of book once the worksheet at place ws of Drive[sp] holds rows
BookWith(sp, ws, rows) ==
    IF sp = 1 THEN [book EXCEPT ![ws].rows = rows] ELSE book

\* the spreadsheets made once the worksheet at place ws of Drive[sp] holds rows
CreatedWith(sp, ws, rows) ==
    IF sp > 1 THEN [created EXCEPT ![sp - 1].sheets[ws].rows = rows]
    ELSE created

\* worksheet.clear() on the worksheet _select_worksheet answers
ClearSelected(sel) ==
    IF sel.exc # ""
    THEN [events |-> sel.events, exc |-> sel.exc, result |-> NoResult,
          book |-> book, created |-> created]
    ELSE [events |-> Append(sel.events,
                            [e |-> "clear", sp |-> sel.sp, ws |-> sel.ws]),
          exc |-> "", result |-> [kind |-> "dict"],
          book |-> BookWith(sel.sp, sel.ws, "blank"),
          created |-> CreatedWith(sel.sp, sel.ws, "blank")]

\* ServiceAccountClearRun clearing the first worksheet of the spreadsheet,
\* whichever worksheet it is given
ServiceAccountClearRun_first_worksheet(spreadsheet, worksheet, folder_id) ==
    ClearSelected(_select_worksheet(spreadsheet, PyNone, folder_id))

\* GSheetsServiceAccountClient.clear: its events, its exception, its result
\* and the remote spreadsheets it leaves
ServiceAccountClearRun(spreadsheet, worksheet, folder_id) ==
    ClearSelected(_select_worksheet(spreadsheet, worksheet, folder_id))

\* a call that was given data
DataCall(call, data) ==
    [f \in DOMAIN call \cup {"data"} |-> IF f = "data" THEN data ELSE call[f]]

\* how many more calls have changed the remote spreadsheets after a run
WritesAfter(run) ==
    IF run.book = book /\ run.created = created THEN writes ELSE writes + 1

ServiceAccountClear ==
    /\ pc = "ready" /\ client = "service_account"
    /\ \E spreadsheet \in SpreadsheetArgs, worksheet \in WriteWorksheetArgs,
          folder_id \in FolderArgs :
        \E run \in {ServiceAccountClearRun(spreadsheet, worksheet, folder_id)} :
           /\ WritesAfter(run) <= MaxWrites
           /\ writes' = WritesAfter(run)
           /\ book' = run.book
           /\ created' = run.created
           /\ last' = Call("clear", spreadsheet, worksheet, folder_id, NoSql,
                           run.events, run.exc, run.result)
    /\ UNCHANGED <<pc, secrets, client, _spreadsheet, _worksheet, cache>>

\* GSheetsServiceAccountClient.update: its events, its exception, its result
\* and the remote spreadsheets it leaves
ServiceAccountUpdateRun(spreadsheet, worksheet, data, folder_id) ==
    LET sp == OrDefault(spreadsheet, _spreadsheet)
        fid == OrDefault(folder_id, _worksheet)
        opened == IF sp.ty = "str" THEN _open_spreadsheet(sp, fid)
                  ELSE [events |-> <<>>, exc |-> "", sp |-> 0]
        obj == IF sp.ty = "str" THEN SpreadsheetObject(opened.sp) ELSE sp
        sel == _select_worksheet(obj, worksheet, fid)
        ws == WorksheetObject(sel.sp, sel.ws)
        cleared == IF Truthy(ws) THEN ServiceAccountClearRun(obj, ws, fid).events
                   ELSE <<>>
    IN IF opened.exc # ""
       THEN [events |-> opened.events, exc |-> opened.exc, result |-> NoResult,
             book |-> book, created |-> created]
       ELSE IF sel.exc # ""
       THEN [events |-> opened.events \o sel.events, exc |-> sel.exc,
             result |-> NoResult, book |-> book, created |-> created]
       ELSE IF ~HasFrame(data)
       THEN [events |-> opened.events \o sel.events, exc |-> "",
             result |-> NoResult, book |-> book, created |-> created]
       ELSE [events |-> opened.events \o sel.events \o cleared
                            \o <<[e |-> "set_with_dataframe", sp |-> sel.sp,
                                  ws |-> sel.ws, rows |-> ToFrame(data)],
                                 [e |-> "set_format_with_dataframe",
                                  sp |-> sel.sp, ws |-> sel.ws]>>,
             exc |-> "",
             result |-> [kind |-> "table", rows |-> ToFrame(data)],
             book |-> BookWith(sel.sp, sel.ws, data.rows),
             created |-> CreatedWith(sel.sp, sel.ws, data.rows)]

ServiceAccountUpdate ==
    /\ pc = "ready" /\ client = "service_account"
    /\ \E spreadsheet \in SpreadsheetArgs, worksheet \in WriteWorksheetArgs,
          data \in DataArgs, folder_id \in FolderArgs :
        \E run \in {ServiceAccountUpdateRun(spreadsheet, worksheet, data,
                                              folder_id)} :
           /\ WritesAfter(run) <= MaxWrites
           /\ writes' = WritesAfter(run)
           /\ book' = run.book
           /\ created' = run.created
           /\ last' = DataCall(Call("update", spreadsheet, worksheet,
                                    folder_id, NoSql, run.events, run.exc,
                                    run.result), data)
    /\ UNCHANGED <<pc, secrets, client, _spreadsheet, _worksheet, cache>>

\* gspread Client.create(title, folder_id): the spreadsheet made, with the
\* one worksheet a new spreadsheet has
NewSpreadsheet(title, folder_id) ==
    [title |-> title, folder_id |-> folder_id,
     sheets |-> <<[title |-> "Sheet1", rows |-> "blank"]>>]

\* ServiceAccountCreateRun creating a spreadsheet whether or not one is found
ServiceAccountCreateRun_always_creates(spreadsheet, worksheet, data, folder_id) ==
    LET sp == _spreadsheet
        fid == OrDefault(folder_id, _worksheet)
        opened == _open_spreadsheet(sp, fid)
        notFound == TRUE
        \* Client.create fails for a folder the drive does not have
        createFails == Truthy(fid) /\ fid \notin Folders
        made == IF notFound THEN Append(created, NewSpreadsheet(sp, fid))
                ELSE created
        new_spreadsheet == IF notFound THEN Len(made) + 1 ELSE opened.sp
        events == opened.events
                      \o (IF notFound
                          THEN <<[e |-> "create", title |-> sp,
                                  folder_id |-> fid]>>
                          ELSE <<>>)
        sheets == IF new_spreadsheet = 1 THEN book
                  ELSE made[new_spreadsheet - 1].sheets
        add(rows, cols) == [e |-> "add_worksheet", sp |-> new_spreadsheet,
                            title |-> worksheet, rows |-> rows, cols |-> cols]
        \* add_worksheet fails for a title the spreadsheet has
        addFails == TitleIndex(sheets, worksheet.v, 1) # 0
        added(rows) == Append(sheets, [title |-> worksheet.v[1], rows |-> rows])
        bookWith(rows) == IF new_spreadsheet = 1 THEN added(rows) ELSE book
        createdWith(rows) ==
            IF new_spreadsheet = 1 THEN made
            ELSE [made EXCEPT ![new_spreadsheet - 1].sheets = added(rows)]
    IN IF ~(~Truthy(spreadsheet) /\ Truthy(_spreadsheet))
       THEN [events |-> <<>>, exc |-> "ValueError", result |-> NoResult,
             book |-> book, created |-> created]
       ELSE IF notFound /\ createFails
       THEN [events |-> events, exc |-> "APIError", result |-> NoResult,
             book |-> book, created |-> created]
       ELSE IF ~HasFrame(data)
       THEN [events |-> Append(events, add(0, 0)),
             exc |-> IF addFails THEN "APIError" ELSE "",
             result |-> NoResult,
             book |-> IF addFails THEN book ELSE bookWith("blank"),
             created |-> IF addFails THEN made ELSE createdWith("blank")]
       ELSE IF addFails
       THEN [events |-> Append(events, add(data.shape[1], data.shape[2])),
             exc |-> "APIError", result |-> NoResult,
             book |-> book, created |-> made]
       ELSE [events |-> events
                            \o <<add(data.shape[1], data.shape[2]),
                                 [e |-> "set_with_dataframe",
                                  sp |-> new_spreadsheet,
                                  ws |-> Len(sheets) + 1,
                                  rows |-> ToFrame(data)],
                                 [e |-> "set_format_with_dataframe",
                                  sp |-> new_spreadsheet,
                                  ws |-> Len(sheets) + 1]>>,
             exc |-> "",
             result |-> [kind |-> "table", rows |-> ToFrame(data)],
             book |-> bookWith(data.rows),
             created |-> createdWith(data.rows)]

\* GSheetsServiceAccountClient.create: its events, its exception, its result
\* and the remote spreadsheets it leaves
ServiceAccountCreateRun(spreadsheet, worksheet, data, folder_id) ==
    LET sp == _spreadsheet
        fid == OrDefault(folder_id, _worksheet)
        opened == _open_spreadsheet(sp, fid)
        notFound == opened.exc = "SpreadsheetNotFound"
        \* Client.create fails for a folder the drive does not have
        createFails == Truthy(fid) /\ fid \notin Folders
        made == IF notFound THEN Append(created, NewSpreadsheet(sp, fid))
                ELSE created
        new_spreadsheet == IF notFound THEN Len(made) + 1 ELSE opened.sp
        events == opened.events
                      \o (IF notFound
                          THEN <<[e |-> "create", title |-> sp,
                                  folder_id |-> fid]>>
                          ELSE <<>>)
        sheets == IF new_spreadsheet = 1 THEN book
                  ELSE made[new_spreadsheet - 1].sheets
        add(rows, cols) == [e |-> "add_worksheet", sp |-> new_spreadsheet,
                            title |-> worksheet, rows |-> rows, cols |-> cols]
        \* add_worksheet fails for a title the spreadsheet has
        addFails == TitleIndex(sheets, worksheet.v, 1) # 0
        added(rows) == Append(sheets, [title |-> worksheet.v[1], rows |-> rows])
        bookWith(rows) == IF new_spreadsheet = 1 THEN added(rows) ELSE book
        createdWith(rows) ==
            IF new_spreadsheet = 1 THEN made
            ELSE [made EXCEPT ![new_spreadsheet - 1].sheets = added(rows)]
    IN IF ~(~Truthy(spreadsheet) /\ Truthy(_spreadsheet))
       THEN [events |-> <<>>, exc |-> "ValueError", result |-> NoResult,
             book |-> book, created |-> created]
       ELSE IF notFound /\ createFails
       THEN [events |-> events, exc |-> "APIError", result |-> NoResult,
             book |-> book, created |-> created]
       ELSE IF ~HasFrame(data)
       THEN [events |-> Append(events, add(0, 0)),
             exc |-> IF addFails THEN "APIError" ELSE "",
             result |-> NoResult,
             book |-> IF addFails THEN book ELSE bookWith("blank"),
             created |-> IF addFails THEN made ELSE createdWith("blank")]
       ELSE IF addFails
       THEN [events |-> Append(events, add(data.shape[1], data.shape[2])),
             exc |-> "APIError", result |-> NoResult,
             book |-> book, created |-> made]
       ELSE [events |-> events
                            \o <<add(data.shape[1], data.shape[2]),
                                 [e |-> "set_with_dataframe",
                                  sp |-> new_spreadsheet,
                                  ws |-> Len(sheets) + 1,
                                  rows |-> ToFrame(data)],
                                 [e |-> "set_format_with_dataframe",
                                  sp |-> new_spreadsheet,
                                  ws |-> Len(sheets) + 1]>>,
             exc |-> "",
             result |-> [kind |-> "table", rows |-> ToFrame(data)],
             book |-> bookWith(data.rows),
             created |-> createdWith(data.rows)]

ServiceAccountCreate ==
    /\ pc = "ready" /\ client = "service_account"
    /\ \E spreadsheet \in SpreadsheetArgs, worksheet \in CreateWorksheetArgs,
          data \in DataArgs, folder_id \in FolderArgs :
        \E run \in {ServiceAccountCreateRun(spreadsheet, worksheet, data,
                                              folder_id)} :
           /\ WritesAfter(run) <= MaxWrites
           /\ writes' = WritesAfter(run)
           /\ book' = run.book
           /\ created' = run.created
           /\ last' = DataCall(Call("create", spreadsheet, worksheet,
                                    folder_id, NoSql, run.events, run.exc,
                                    run.result), data)
    /\ UNCHANGED <<pc, secrets, client, _spreadsheet, _worksheet, cache>>

---------------------------------------------------------------------------
(* The connection *)

Init ==
    /\ pc = "new"
    /\ secrets \in SecretsDicts
    /\ client = "none"
    /\ _spreadsheet = PyNone
    /\ _worksheet = PyNone
    /\ book = <<Sheet1, Sheet2>>
    /\ created = <<>>
    /\ writes = 0
    /\ cache = {}
    /\ last = NoCall

Next ==
    \/ Connect
    \/ SetDefault
    \/ PublicRead
    \/ PublicQuery
    \/ PublicCreate
    \/ PublicUpdate
    \/ PublicClear
    \/ ServiceAccountQuery

Spec == Init /\ [][Next]_vars

\* the secrets tried when every operation of both clients is called
SecretsAll ==
    {[type |-> PyNone, spreadsheet |-> UrlA, worksheet |-> PyNone],
     [type |-> PyStr(<<"service_account">>), spreadsheet |-> PyNone,
      worksheet |-> PyNone],
     [type |-> PyStr(<<"service_account">>), spreadsheet |-> PyStr(<<"Book">>),
      worksheet |-> PyInt("5")]}

InitAll ==
    /\ pc = "new"
    /\ secrets \in SecretsAll
    /\ client = "none"
    /\ _spreadsheet = PyNone
    /\ _worksheet = PyNone
    /\ book = <<Sheet1, Sheet2>>
    /\ created = <<>>
    /\ writes = 0
    /\ cache = {}
    /\ last = NoCall

\* the public connection, its read and query called with evaluate_formulas,
\* folder_id and further options
InitOptions ==
    /\ pc = "new"
    /\ secrets = [type |-> PyNone, spreadsheet |-> UrlA, worksheet |-> PyNone]
    /\ client = "none"
    /\ _spreadsheet = PyNone
    /\ _worksheet = PyNone
    /\ book = <<Sheet1, Sheet2>>
    /\ created = <<>>
    /\ writes = 0
    /\ cache = {}
    /\ last = NoCall

NextOptions ==
    \/ Connect
    \/ SetDefault
    \/ PublicReadOptions
    \/ PublicQueryOptions

SpecOptions == InitOptions /\ [][NextOptions]_vars

\* the connection with the service account's read, create, update and clear
NextAll ==
    \/ Next
    \/ ServiceAccountRead
    \/ ServiceAccountCreate
    \/ ServiceAccountUpdate
    \/ ServiceAccountClear

SpecAll == InitAll /\ [][NextAll]_vars

---------------------------------------------------------------------------
(* _get_download_as_csv_url on its own: a spreadsheet and a worksheet are
   drawn, and the export URL is built *)

InitUrl ==
    /\ pc = "in"
    /\ secrets = [type |-> PyNone, spreadsheet |-> PyNone, worksheet |-> PyNone]
    /\ client = "public"
    /\ _spreadsheet = PyNone
    /\ _worksheet = PyNone
    /\ book = <<>>
    /\ created = <<>>
    /\ writes = 0
    /\ cache = {}
    /\ \E spreadsheet \in Urls \cup BareKeys, worksheet \in UrlWorksheetArgs :
        last = Call("input", spreadsheet, worksheet, PyNone, NoSql, <<>>, "",
                    NoResult)

GetDownloadAsCsvUrl ==
    /\ pc = "in"
    /\ pc' = "out"
    /\ last' = Call("_get_download_as_csv_url", last.spreadsheet, last.worksheet,
                    PyNone, NoSql, <<>>, "",
                    [kind |-> "url",
                     url |-> _get_download_as_csv_url(last.spreadsheet,
                                                      last.worksheet)])
    /\ UNCHANGED <<secrets, client, _spreadsheet, _worksheet, book, created, writes,
                   cache>>

NextUrl == GetDownloadAsCsvUrl

SpecUrl == InitUrl /\ [][NextUrl]_vars

---------------------------------------------------------------------------
(* _select_worksheet on its own: a service account's connection as its
   secrets leave it, the worksheets of the spreadsheet Book, and one call *)

\* a worksheet whose title reads as a number
SheetOne == [title |-> "1", rows |-> "rows3"]

\* the worksheets Book may hold
SelectBooks == {<<Sheet1, Sheet2>>, <<SheetOne, Sheet1>>}

\* the secrets of the service account: any default spreadsheet and worksheet
SelectSecrets ==
    {[type |-> PyStr(<<"service_account">>), spreadsheet |-> s,
      worksheet |-> w] :
        s \in {PyNone} \cup DefaultSpreadsheetArgs, w \in DefaultWorksheetArgs}

\* spreadsheet arguments of _select_worksheet: None, a URL, a title and a
\* Spreadsheet
SelectSpreadsheetArgs == {PyNone, UrlA, BookTitle, SpreadsheetObject(1)}

\* worksheet arguments of _select_worksheet: None, indexes, titles, the empty
\* string and a Worksheet
SelectWorksheetArgs ==
    {PyNone, PyInt("0"), PyInt("1"), PyInt("7"), PyStr(<<"Sheet2">>),
     PyStr(<<"1">>), PyStr(<<>>), WorksheetObject(1, 2)}

InitSelect ==
    /\ pc = "ready"
    /\ secrets \in SelectSecrets
    /\ client = "service_account"
    /\ _spreadsheet = secrets.spreadsheet
    /\ _worksheet = secrets.worksheet
    /\ book \in SelectBooks
    /\ created = <<>>
    /\ writes = 0
    /\ cache = {}
    /\ last = NoCall

\* self._select_worksheet(spreadsheet=..., worksheet=..., folder_id=...), as
\* the call it leaves behind
SelectWorksheetCall(spreadsheet, worksheet, folder_id, sel) ==
    Call("_select_worksheet", spreadsheet, worksheet, folder_id, NoSql,
         sel.events, sel.exc,
         IF sel.exc = "" THEN [kind |-> "Worksheet", sp |-> sel.sp,
                               ws |-> sel.ws]
         ELSE NoResult)

SelectWorksheet ==
    /\ pc = "ready" /\ client = "service_account"
    /\ \E spreadsheet \in SelectSpreadsheetArgs,
          worksheet \in SelectWorksheetArgs, folder_id \in FolderArgs :
        last' = SelectWorksheetCall(
                    spreadsheet, worksheet, folder_id,
                    _select_worksheet(spreadsheet, worksheet, folder_id))
    /\ UNCHANGED <<pc, secrets, client, _spreadsheet, _worksheet, book, created,
                   writes, cache>>

NextSelect == SelectWorksheet

SpecSelect == InitSelect /\ [][NextSelect]_vars

---------------------------------------------------------------------------
(* st.cache_data around the service account's read and query. The reads and
   queries of the sections above are the calls that find no entry (ttl=0, or
   an entry expired, evicted or cleared); the ones here are called with the
   default ttl and max_entries and keep their entries. *)

\* what a lookup answers when the cache holds no entry for the key
NoEntry == [kind |-> "miss"]

\* the value cache c holds for key
Cached(c, key) ==
    IF \E e \in c : e.key = key THEN (CHOOSE e \in c : e.key = key).value
    ELSE NoEntry

\* cache c once value is stored under key
Stored(c, key, value) ==
    {e \in c : e.key # key} \cup {[key |-> key, value |-> value]}

\* the key of read's _get_as_dataframe: the arguments it is called with
ReadKey(spreadsheet, folder_id, worksheet) ==
    <<"_get_as_dataframe", spreadsheet, folder_id, worksheet, PyTrue,
      NoOptions>>

\* the key of query's _query: the arguments it is called with
QueryKey(sql, spreadsheet, folder_id) ==
    <<"_query", sql, spreadsheet, folder_id, PyTrue, NoOptions>>

\* CachedFunction answering from the function whether or not an entry is
\* there
CachedFunction_always_runs(c, key, run) ==
    [events |-> run.events, exc |-> run.exc, rows |-> run.rows,
     cache |-> IF run.exc = "" THEN Stored(c, key, run.rows) ELSE c]

\* a function under @cache_data: the entry of the key when there is one, and
\* nothing else happens; else what the function does (run), its answer stored
\* unless it raises
CachedFunction(c, key, run) ==
    IF Cached(c, key) # NoEntry
    THEN [events |-> <<>>, exc |-> "", rows |-> Cached(c, key), cache |-> c]
    ELSE [events |-> run.events, exc |-> run.exc, rows |-> run.rows,
          cache |-> IF run.exc = "" THEN Stored(c, key, run.rows) ELSE c]

\* GSheetsServiceAccountClient.read with cache c
CachedReadRun(c, spreadsheet, worksheet, folder_id) ==
    CachedFunction(c,
                   ReadKey(OrDefault(spreadsheet, _spreadsheet),
                           OrDefault(folder_id, _worksheet), worksheet),
                   ServiceAccountReadRun(spreadsheet, worksheet, folder_id))

\* the cache after one pass of the loop of _query, given the cache before
\* (c), what _select_worksheet and read answer, and the later passes
CacheAfterTable(c, sel, rd, rest) ==
    IF sel.exc # "" THEN c
    ELSE IF sel.ws = 0 THEN rest.cache
    ELSE IF rd.exc # "" THEN rd.cache
    ELSE rest.cache

\* the loop of _query from the i-th table name on, with cache c: each read
\* goes through the cache
RECURSIVE CachedLoad(_, _, _, _, _)

\* what a pass of the loop of _query loaded, with the cache it leaves
CachedLoadPass(loaded, after) ==
    [events |-> loaded.events, exc |-> loaded.exc, rows |-> loaded.rows,
     cache |-> after]

\* one pass of the loop of _query with cache c, the later passes given
CachedLoadRest(c, name, sel, rd, rest) ==
    CachedLoadPass(ServiceAccountLoadTable(name, PyStr(<<name>>), sel, rd, rest),
                   CacheAfterTable(c, sel, rd, rest))

\* one pass of the loop of _query with cache c: the later passes start from
\* the cache the read of this pass leaves, when there is a read
CachedLoadTable(c, tables, i, spreadsheet, folder_id, sel, rd) ==
    CachedLoadRest(c, tables[i], sel, rd,
                   CachedLoad(IF sel.exc = "" /\ sel.ws # 0 THEN rd.cache
                              ELSE c,
                              tables, i + 1, spreadsheet, folder_id))

CachedLoad(c, tables, i, spreadsheet, folder_id) ==
    IF i > Len(tables)
    THEN [events |-> <<>>, exc |-> "", rows |-> <<>>, cache |-> c]
    ELSE CachedLoadTable(
            c, tables, i, spreadsheet, folder_id,
            _select_worksheet(spreadsheet, PyStr(<<tables[i]>>), folder_id),
            CachedReadRun(c, spreadsheet, PyStr(<<tables[i]>>), folder_id))

\* _query with cache c: its events, its exception, its result and the cache
\* it leaves
CachedQueryLoaded(call, loaded) ==
    [events |-> call.events, exc |-> call.exc, rows |-> call.result,
     cache |-> loaded.cache]

\* GSheetsServiceAccountClient.query with cache c
CachedQueryRun(c, sql, spreadsheet, folder_id) ==
    CachedFunction(
        c,
        QueryKey(sql, OrDefault(spreadsheet, _spreadsheet),
                 OrDefault(folder_id, _worksheet)),
        CachedQueryLoaded(
            ServiceAccountQueryLoaded(
                sql, spreadsheet, PyNone, folder_id,
                CachedLoad(c, sql.tables, 1,
                           OrDefault(spreadsheet, _spreadsheet),
                           OrDefault(folder_id, _worksheet))),
            CachedLoad(c, sql.tables, 1, OrDefault(spreadsheet, _spreadsheet),
                       OrDefault(folder_id, _worksheet))))

\* the spreadsheet, worksheet and SQL arguments of the cached calls: the
\* default spreadsheet by itself and by None, a worksheet that is there and
\* one that is not until it is created
CacheSpreadsheetArgs == {PyNone, UrlA}
CacheWorksheetArgs == {PyNone, PyStr(<<"Sheet2">>), PyStr(<<"tmp">>)}
CacheSqlArgs == {[shape |-> "select", tables |-> <<"Sheet2">>],
                 [shape |-> "select", tables |-> <<"tmp">>]}

\* a service account connection with a default spreadsheet, connected
InitCache ==
    /\ pc = "ready"
    /\ secrets = [type |-> PyStr(<<"service_account">>), spreadsheet |-> UrlA,
                  worksheet |-> PyNone]
    /\ client = "service_account"
    /\ _spreadsheet = secrets.spreadsheet
    /\ _worksheet = secrets.worksheet
    /\ book = <<Sheet1, Sheet2>>
    /\ created = <<>>
    /\ writes = 0
    /\ cache = {}
    /\ last = NoCall

\* read(spreadsheet, worksheet) with the default ttl
CachedRead ==
    /\ pc = "ready" /\ client = "service_account"
    /\ \E spreadsheet \in CacheSpreadsheetArgs, worksheet \in CacheWorksheetArgs :
        \E run \in {CachedReadRun(cache, spreadsheet, worksheet, PyNone)} :
           /\ cache' = run.cache
           /\ last' = Call("read", spreadsheet, worksheet, PyNone, NoSql,
                           run.events, run.exc,
                           IF run.exc = ""
                           THEN [kind |-> "table", rows |-> run.rows]
                           ELSE NoResult)
    /\ UNCHANGED <<pc, secrets, client, _spreadsheet, _worksheet, book, created,
                   writes>>

\* query(sql, spreadsheet) with the default ttl
CachedQuery ==
    /\ pc = "ready" /\ client = "service_account"
    /\ \E sql \in CacheSqlArgs, spreadsheet \in CacheSpreadsheetArgs :
        \E run \in {CachedQueryRun(cache, sql, spreadsheet, PyNone)} :
           /\ cache' = run.cache
           /\ last' = Call("query", spreadsheet, PyNone, PyNone, sql,
                           run.events, run.exc, run.rows)
    /\ UNCHANGED <<pc, secrets, client, _spreadsheet, _worksheet, book, created,
                   writes>>

\* st.cache_data.clear(), called by the application
CacheClear ==
    /\ pc = "ready"
    /\ cache' = {}
    /\ last' = Call("cache_clear", PyNone, PyNone, PyNone, NoSql, <<>>, "",
                    NoResult)
    /\ UNCHANGED <<pc, secrets, client, _spreadsheet, _worksheet, book, created,
                   writes>>

\* the ttl of an entry elapses, or max_entries evicts it
CacheExpire ==
    /\ pc = "ready"
    /\ \E e \in cache : cache' = cache \ {e}
    /\ last' = Call("expire", PyNone, PyNone, PyNone, NoSql, <<>>, "",
                    NoResult)
    /\ UNCHANGED <<pc, secrets, client, _spreadsheet, _worksheet, book, created,
                   writes>>

NextCache ==
    \/ CachedRead
    \/ CachedQuery
    \/ ServiceAccountUpdate
    \/ ServiceAccountClear
    \/ ServiceAccountCreate
    \/ CacheClear
    \/ CacheExpire

SpecCache == InitCache /\ [][NextCache]_vars

---------------------------------------------------------------------------
(* What the claims speak of *)

ServiceAccountType == PyStr(<<"service_account">>)

\* the events of the latest call that are of kind e
EventsOf(e) == {i \in DOMAIN last.events : last.events[i].e = e}

\* a worksheet identifier was passed: an integer (0 included) or a name
Supplied(worksheet) ==
    worksheet.ty = "int" \/ (worksheet.ty = "str" /\ worksheet.v # <<>>)

\* the last token of the path of URL s
PathEnd(s) ==
    LET stops == {i \in DOMAIN s : s[i] \in {"?", "#"}}
    IN IF stops = {} THEN Len(s)
       ELSE (CHOOSE i \in stops : \A j \in stops : i <= j) - 1

\* "/d/" stands at index i of s
SlashDSlash(s, i) ==
    i + 2 <= Len(s) /\ s[i] = "/" /\ s[i + 1] = "d" /\ s[i + 2] = "/"

\* the path of URL s has a segment /d/<key>/ with a key that is not empty
HasKeySegment(s) ==
    \E i \in (Len(Scheme) + 2)..PathEnd(s) :
        /\ i + 4 <= PathEnd(s)
        /\ SlashDSlash(s, i)
        /\ s[i + 3] # "/"
        /\ s[i + 4] = "/"

\* the first "/d/" of s
FirstSlashD(s) ==
    CHOOSE i \in DOMAIN s : SlashDSlash(s, i) /\ \A j \in 1..(i - 1) : ~SlashDSlash(s, j)

\* the text between the first "/d/" and the next "/"
KeyToNextSlash(s) ==
    LET i == FirstSlashD(s)
        j == CHOOSE k \in (i + 3)..Len(s) :
                 s[k] = "/" /\ \A m \in (i + 3)..(k - 1) : s[m] # "/"
    IN Slice(s, i + 3, j - 1)

\* the text between the first "/d/" and the first "/" that follows at least
\* one more character
KeyToLaterSlash(s) ==
    LET i == FirstSlashD(s)
        j == CHOOSE k \in (i + 4)..Len(s) :
                 s[k] = "/" /\ \A m \in (i + 4)..(k - 1) : s[m] # "/"
    IN Slice(s, i + 3, j - 1)

\* every gid=<word> of s, wherever it stands
UrlGids(s) ==
    {SubSeq(s, i + 2, WordRunEnd(s, i + 2) - 1) :
        i \in {k \in DOMAIN s : /\ k + 2 <= Len(s)
                                /\ s[k] = "gid" /\ s[k + 1] = "="
                                /\ s[k + 2] \in WordTokens}}

\* the export URL url is the fixed text around key, with no gid or with one of gids
IsExportUrl(url, key, gids) ==
    \/ url = ExportPrefix \o key \o ExportSuffix
    \/ \E g \in gids : url = ExportPrefix \o key \o ExportSuffix \o GidParam \o g

\* what follows "&output=csv" in an export URL
GidPart(url) == Slice(url, IndexFrom(url, "&output=csv", 1) + 1, Len(url))

\* the latest call applied _get_download_as_csv_url
UrlBuilt == pc = "out" /\ last.op = "_get_download_as_csv_url"

---------------------------------------------------------------------------
(* Claims *)

\* C1: once the connection is made, the service-account client was built if and
\* only if the secrets' type is "service_account"; for every other type
\* (absent, empty, anything else) the public client was built.
C1_ClientSelection ==
    pc = "ready" =>
        /\ client \in {"service_account", "public"}
        /\ client = "service_account" <=> secrets.type = ServiceAccountType
        /\ secrets.type # ServiceAccountType => client = "public"

\* a connection made from secrets of some other, non-empty type
C1_Witness ==
    pc = "ready" /\ client = "public" /\ secrets.type = PyStr(<<"other">>)

\* C2: in public mode every create, update and clear raises the
\* unsupported-operation error, fetches and writes nothing, and leaves the
\* stored defaults (and the remote worksheets) as they were.
C2_PublicCrudRejected ==
    [][(client = "public" /\ last' # last
            /\ last'.op \in {"create", "update", "clear"}) =>
        /\ last'.exc = "UnsupportedOperationException"
        /\ last'.events = <<>>
        /\ last'.result = NoResult
        /\ _spreadsheet' = _spreadsheet
        /\ _worksheet' = _worksheet
        /\ book' = book]_vars

\* a clear that names a spreadsheet, on a connection with both defaults stored
C2_Witness ==
    /\ client = "public" /\ last.op = "clear"
    /\ last.exc = "UnsupportedOperationException"
    /\ Truthy(last.spreadsheet)
    /\ Truthy(_spreadsheet) /\ Truthy(_worksheet)

\* C3: in public mode a read or query without a spreadsheet argument, while no
\* default spreadsheet is stored, raises the value error before any export URL
\* is built or fetched.
C3_PublicMissingSpreadsheet ==
    (/\ client = "public" /\ last.op \in {"read", "query"}
     /\ last.spreadsheet = PyNone /\ _spreadsheet = PyNone) =>
        /\ last.exc = "ValueError"
        /\ last.events = <<>>
        /\ last.result = NoResult

\* a query of two tables with a grid id but no spreadsheet anywhere
C3_Witness ==
    /\ client = "public" /\ last.op = "query"
    /\ last.spreadsheet = PyNone /\ _spreadsheet = PyNone
    /\ Len(last.sql.tables) = 2 /\ last.worksheet = PyInt("7")
    /\ last.exc = "ValueError"

\* C4 as stated: for a well-formed URL with a path segment /d/<key>/, the export
\* URL is the fixed text around the key, with at most a gid after it, the key
\* being the text between the first "/d/" and the next "/".
C4_KeyToNextSlash ==
    (UrlBuilt /\ validate_url(last.spreadsheet)
        /\ HasKeySegment(last.spreadsheet.v)) =>
        IsExportUrl(last.result.url, KeyToNextSlash(last.spreadsheet.v),
                    UrlGids(last.spreadsheet.v) \cup {Format(last.worksheet)})

\* C4 as amended: for a well-formed URL with a path segment /d/<key>/, the export
\* URL is the fixed text around the key, with at most a gid after it (the
\* worksheet passed or a gid of the URL), the key being the text between the
\* first "/d/" and the first "/" that follows at least one more character.
C4_KeyToLaterSlash ==
    (UrlBuilt /\ validate_url(last.spreadsheet)
        /\ HasKeySegment(last.spreadsheet.v)) =>
        IsExportUrl(last.result.url, KeyToLaterSlash(last.spreadsheet.v),
                    UrlGids(last.spreadsheet.v) \cup {Format(last.worksheet)})

\* the test's URL shape with more around it: /edit/d/k1/ with a gid in the
\* query and in the fragment, resolved to the key k1
C4_Witness ==
    /\ UrlBuilt
    /\ last.spreadsheet =
         PyStr(Scheme \o <<Host, "/", "edit", "/", "d", "/", "k1", "/",
                           "?", "usp", "=", "sharing", "&", "gid", "=", "&",
                           "gid", "=", "9", "#", "gid", "=", "5">>)
    /\ last.worksheet = PyNone
    /\ last.result.url = ExportPrefix \o <<"k1">> \o ExportSuffix
                            \o GidParam \o <<"5">>

\* the gid the claim expects for URL s and the worksheet passed
C5_ExpectedGid(s, worksheet) ==
    IF Supplied(worksheet) THEN GidParam \o Format(worksheet)
    ELSE IF FirstFragmentGid(UrlFragment(s), 1) # <<>>
    THEN GidParam \o FirstFragmentGid(UrlFragment(s), 1)
    ELSE IF FirstQueryGid(UrlQuery(s), 1) # <<>>
    THEN GidParam \o FirstQueryGid(UrlQuery(s), 1)
    ELSE <<>>

\* C5: the gid of the export URL is the worksheet passed when there is one,
\* whatever gid the URL holds; else the gid of the fragment; else the gid of
\* the query; else the export URL has no gid.
C5_GidPrecedence ==
    (UrlBuilt /\ validate_url(last.spreadsheet)
        /\ HasKeySegment(last.spreadsheet.v)) =>
        GidPart(last.result.url) =
            C5_ExpectedGid(last.spreadsheet.v, last.worksheet)

\* C6: an input that is no well-formed URL is the key as it stands, followed by
\* the gid exactly when a worksheet is passed.
C6_BareKey ==
    (UrlBuilt /\ ~validate_url(last.spreadsheet)) =>
        last.result.url =
            ExportPrefix \o last.spreadsheet.v \o ExportSuffix
                \o (IF Supplied(last.worksheet)
                    THEN GidParam \o Format(last.worksheet) ELSE <<>>)


\* C7: a public read or query uses the spreadsheet passed, else the stored one,
\* and the worksheet passed whenever one is passed, grid id 0 included, the
\* stored worksheet only when none is passed; read() returns what
\* read(spreadsheet=<the stored spreadsheet>) returns.
C7_PerCallOverride ==
    (client = "public" /\ last.op \in {"read", "query"} /\ last.exc = "") =>
        /\ last.events[1].spreadsheet =
              (IF last.spreadsheet # PyNone THEN last.spreadsheet
               ELSE _spreadsheet)
        /\ last.events[1].worksheet =
              (IF Supplied(last.worksheet) THEN last.worksheet ELSE _worksheet)
        /\ \A w \in WorksheetArgs :
              PublicReadCall(PyNone, w, PyNone).result =
                  PublicReadCall(_spreadsheet, w, PyNone).result

\* the rows of the worksheet of book titled name, as get_as_dataframe gives them
BookRows(name) ==
    LET i == CHOOSE k \in DOMAIN book : book[k].title = name
    IN [src |-> "worksheet", title |-> name, rows |-> book[i].rows]

MissingTables ==
    {last.sql.tables[k] : k \in DOMAIN last.sql.tables} \
        {book[i].title : i \in DOMAIN book}

\* C9: a service-account query that opened its spreadsheet returns, whatever
\* worksheets are missing, and each table that names a missing worksheet was
\* created empty.
C9_MissingWorksheetIsEmptyTable ==
    (/\ client = "service_account" /\ last.op = "query"
     /\ last.exc \notin {"SpreadsheetNotFound", "AttributeError"}) =>
        /\ last.exc = ""
        /\ \A n \in MissingTables :
              \E c \in EventsOf("create_table") :
                  last.events[c].name = n /\ last.events[c].rows = EmptyFrame

\* C10: a public query that returns fetched nothing but its one export URL, the
\* URL of the spreadsheet and grid id resolved; each table the statement
\* references holds the rows of that URL, whatever its name; and the same
\* statement over other table names gives the same result.
C10_PublicQueryOneWorksheet ==
    (client = "public" /\ last.op = "query" /\ last.exc = "") =>
        LET url == last.events[1].url
        IN /\ url = _get_download_as_csv_url(last.events[1].spreadsheet,
                                             last.events[1].worksheet)
           /\ \A f \in EventsOf("read_csv") : last.events[f].url = url
           /\ \A c \in EventsOf("create_table") : last.events[c].rows = Csv(url)
           /\ \A k \in DOMAIN last.sql.tables :
                 \E c \in EventsOf("create_table") :
                     last.events[c].name = last.sql.tables[k]
           /\ \A k \in DOMAIN last.result.inputs :
                 last.result.inputs[k] = Csv(url)
           /\ \A sql \in SqlArgs :
                 (sql.shape = last.sql.shape
                     /\ Len(sql.tables) = Len(last.sql.tables)) =>
                     PublicQueryCall(sql, last.spreadsheet, last.worksheet,
                                     last.folder_id).result = last.result

\* a query of two tables of the stored spreadsheet at grid id 7
C10_Witness ==
    /\ client = "public" /\ last.op = "query" /\ last.exc = ""
    /\ last.sql.tables = <<"Sheet1", "tmp">>
    /\ last.spreadsheet = PyNone /\ _spreadsheet = UrlA
    /\ last.worksheet = PyInt("7")
    /\ last.result.inputs =
          <<Csv(ExportPrefix \o <<"k1">> \o ExportSuffix \o GidParam \o <<"7">>),
            Csv(ExportPrefix \o <<"k1">> \o ExportSuffix \o GidParam \o <<"7">>)>>

\* the places in the latest call's events of the worksheet selections
Selections == EventsOf("worksheet") \cup EventsOf("get_worksheet")

\* whether the selection at place k of the latest call's events gave the
\* worksheet at place ws of the spreadsheet's worksheets
Selected(k, sheets, ws) ==
    IF last.events[k].e = "worksheet"
    THEN <<sheets[ws].title>> = last.events[k].title.v
    ELSE ws = last.events[k].index + 1

\* C11: with the service account, an update given DataFrame-compatible data
\* that selects its worksheet issues exactly one clear of that worksheet and
\* then exactly one write of the data to the same worksheet, which then holds
\* the data, and returns the data; an update that raises before (spreadsheet
\* or worksheet not found) clears and writes nothing.
C11_ClearThenWrite ==
    (client = "service_account" /\ last.op = "update" /\ HasFrame(last.data)) =>
        LET clears == EventsOf("clear")
            sets == EventsOf("set_with_dataframe")
        IN IF last.exc # ""
           THEN clears = {} /\ sets = {} /\ last.result = NoResult
           ELSE /\ Cardinality(clears) = 1
                /\ Cardinality(sets) = 1
                /\ Cardinality(Selections) = 1
                /\ \A k \in Selections, c \in clears, w \in sets :
                      /\ k < c /\ c < w
                      /\ last.events[c].sp = last.events[w].sp
                      /\ last.events[c].ws = last.events[w].ws
                      /\ Selected(k, Drive[last.events[c].sp].sheets,
                                  last.events[c].ws)
                      /\ last.events[w].rows = ToFrame(last.data)
                      /\ Drive[last.events[w].sp].sheets[last.events[w].ws].rows
                            = last.data.rows
                /\ last.result = [kind |-> "table", rows |-> ToFrame(last.data)]

\* an update of worksheet Sheet2 of Book, found in the folder passed, while
\* the stored worksheet is 5
C11_Witness ==
    /\ client = "service_account" /\ last.op = "update" /\ last.exc = ""
    /\ HasFrame(last.data)
    /\ last.worksheet = PyStr(<<"Sheet2">>)
    /\ last.spreadsheet = PyNone /\ _spreadsheet = BookTitle
    /\ last.folder_id = BookFolder /\ _worksheet = PyInt("5")
    /\ book[2].rows = "dataA"

\* whether the latest call began by opening the spreadsheet sp
OpensFirst(sp) ==
    /\ last.events # <<>>
    /\ \/ last.events[1].e = "open_by_url" /\ last.events[1].url = sp
       \/ last.events[1].e = "open" /\ last.events[1].title = sp

\* C12: with the service account, create raises the value error only when
\* neither a spreadsheet argument nor a stored spreadsheet is there; otherwise
\* it operates on the spreadsheet passed, and on the stored one only when
\* none was passed.
C12_CreateSpreadsheet ==
    (client = "service_account" /\ last.op = "create") =>
        /\ last.exc = "ValueError" <=>
               (last.spreadsheet = PyNone /\ _spreadsheet = PyNone)
        /\ last.exc # "ValueError" =>
               OpensFirst(IF last.spreadsheet # PyNone THEN last.spreadsheet
                          ELSE _spreadsheet)

\* C13: with the service account, read, query, update and clear called with
\* no spreadsheet while none is stored raise the value error.
C13_MissingSpreadsheet ==
    (/\ client = "service_account"
     /\ last.op \in {"read", "query", "update", "clear"}
     /\ last.spreadsheet = PyNone /\ _spreadsheet = PyNone) =>
        last.exc = "ValueError"

\* the places in the latest call's events where the API reported
\* spreadsheet-not-found
NotFoundEvents ==
    {i \in DOMAIN last.events :
        /\ last.events[i].e \in {"open", "open_by_url"}
        /\ ~last.events[i].found}

\* C14 as stated: with the service account, when opening the spreadsheet
\* reports spreadsheet-not-found, read, query, create, update and clear raise
\* that error and make no further API call.
C14_NotFoundSurfaces ==
    (/\ client = "service_account"
     /\ last.op \in {"read", "query", "create", "update", "clear"}) =>
        \A i \in NotFoundEvents :
            last.exc = "SpreadsheetNotFound" /\ i = Len(last.events)

\* C14, amended: read, query, update and clear raise the spreadsheet-not-found
\* the open reported and make no further API call; create catches it and goes
\* on to Client.create with the title and the folder it tried to open, so its
\* caller never sees spreadsheet-not-found.
C14_NotFoundSurfacesButCreate ==
    client = "service_account" =>
        /\ last.op \in {"read", "query", "update", "clear"} =>
              \A i \in NotFoundEvents :
                  last.exc = "SpreadsheetNotFound" /\ i = Len(last.events)
        /\ last.op \in {"read", "query", "update", "clear", "create"} =>
              (last.exc = "SpreadsheetNotFound" =>
                  NotFoundEvents = {Len(last.events)})
        /\ last.op = "create" =>
              /\ last.exc # "SpreadsheetNotFound"
              /\ \A i \in NotFoundEvents :
                    /\ i < Len(last.events)
                    /\ last.events[i + 1].e = "create"
                    /\ last.events[i].e = "open"
                    /\ last.events[i + 1].title = last.events[i].title
                    /\ last.events[i + 1].folder_id = last.events[i].folder_id

\* a create that found no spreadsheet titled New, made it and added worksheet
\* tmp to it
C14_Witness ==
    /\ client = "service_account" /\ last.op = "create" /\ last.exc = ""
    /\ NotFoundEvents = {1}
    /\ _spreadsheet = PyStr(<<"New">>)
    /\ Len(created) = 1 /\ Len(created[1].sheets) = 2

\* the places in call's events where a spreadsheet is opened
Opens(call) ==
    {i \in DOMAIN call.events : call.events[i].e \in {"open", "open_by_url"}}

\* whether call, made with no spreadsheet and no worksheet, took spreadsheet
\* and worksheet for them: the public client builds its URL from both, the
\* service account opens that spreadsheet, by URL or by title, and passes
\* that worksheet where it passes the stored one (as the folder of the title)
UsesDefaults(call, spreadsheet, worksheet) ==
    IF client = "public"
    THEN /\ call.exc = ""
         /\ call.events[1].e = "url"
         /\ call.events[1].spreadsheet = spreadsheet
         /\ call.events[1].worksheet = worksheet
    ELSE /\ call.op = "read" => Opens(call) # {}
         /\ \A i \in Opens(call) :
               IF call.events[i].e = "open_by_url"
               THEN call.events[i].url = spreadsheet
               ELSE /\ call.events[i].title = spreadsheet
                    /\ call.events[i].folder_id =
                          (IF Truthy(call.folder_id) THEN call.folder_id
                           ELSE worksheet)

C16_DefaultWorksheet ==
    (/\ client = "service_account"
     /\ last.op \in {"read", "update", "clear"}
     /\ last.worksheet = PyNone /\ Truthy(_worksheet)) =>
        \A k \in Selections :
            IF _worksheet.ty = "str"
            THEN /\ last.events[k].e = "worksheet"
                 /\ last.events[k].title = _worksheet
            ELSE /\ last.events[k].e = "get_worksheet"
                 /\ last.events[k].index = Num(_worksheet)

\* the spreadsheet the latest call works on: the one passed, else the stored
ResolvedSpreadsheet ==
    IF Truthy(last.spreadsheet) THEN last.spreadsheet ELSE _spreadsheet

\* whether the latest call, by its code, opens its spreadsheet
MustOpen ==
    \/ last.op \in {"read", "update", "clear"}
    \/ last.op = "query" /\ last.sql.tables # <<>>
    \/ last.op = "create" /\ last.exc # "ValueError"

\* C17: with the service account, every operation that opens its spreadsheet
\* by title (the spreadsheet is no URL) passes as folder_id the folder_id it
\* was called with and, when it was called with none, the stored worksheet;
\* the same folder_id goes to Client.create.
C17_WorksheetAsFolder ==
    (/\ client = "service_account"
     /\ last.op \in {"read", "query", "create", "update", "clear"}) =>
        /\ \A i \in DOMAIN last.events :
              last.events[i].e \in {"open", "create"} =>
                  last.events[i].folder_id =
                      (IF Truthy(last.folder_id) THEN last.folder_id
                       ELSE IF Truthy(_worksheet) THEN _worksheet
                       ELSE last.folder_id)
        /\ (/\ MustOpen
            /\ ResolvedSpreadsheet.ty = "str"
            /\ ~validate_url(ResolvedSpreadsheet)) =>
              /\ last.events # <<>>
              /\ last.events[1].e = "open"
              /\ last.events[1].title = ResolvedSpreadsheet

\* a clear with no folder_id while the stored worksheet is Sheet2: Book is
\* looked for in folder Sheet2
C17_Witness ==
    /\ client = "service_account" /\ last.op = "clear"
    /\ last.folder_id = PyNone /\ _worksheet = PyStr(<<"Sheet2">>)
    /\ last.events # <<>>
    /\ last.events[1].e = "open"
    /\ last.events[1].folder_id = PyStr(<<"Sheet2">>)
    /\ last.exc = "SpreadsheetNotFound"

\* the latest call made again with other values of evaluate_formulas and
\* folder_id, every other argument and option as they were
SameCallWith(evaluate_formulas, folder_id) ==
    IF last.op = "read"
    THEN PublicReadOptionsCall(last.spreadsheet, last.worksheet,
                               Kwargs(evaluate_formulas, folder_id,
                                      PublicOptions(last.options)))
    ELSE PublicQueryOptionsCall(last.sql, last.spreadsheet, last.worksheet,
                                Kwargs(evaluate_formulas, folder_id,
                                       PublicOptions(last.options)))

\* C18: a public read or query passes neither evaluate_formulas nor folder_id
\* to the CSV reader or to its cached function, and the same call with other
\* values of the two builds the same URL, reads with the same options, calls
\* the cached function with the same arguments and returns the same table.
C18_IgnoredInPublic ==
    (client = "public" /\ last.op \in {"read", "query"}) =>
        /\ \A i \in EventsOf("read_csv") :
              /\ "evaluate_formulas" \notin DOMAIN last.events[i].options
              /\ "folder_id" \notin DOMAIN last.events[i].options
              /\ \A n \in DOMAIN last.options \ {"evaluate_formulas", "folder_id"} :
                    /\ n \in DOMAIN last.events[i].options
                    /\ last.events[i].options[n] = last.options[n]
        /\ last.cache_key[Len(last.cache_key)] = PublicOptions(last.options)
        /\ \A evaluate_formulas \in EvaluateFormulasArgs, folder_id \in FolderArgs :
              LET other == SameCallWith(evaluate_formulas, folder_id)
              IN /\ other.events = last.events
                 /\ other.exc = last.exc
                 /\ other.cache_key = last.cache_key
                 /\ other.result = last.result

\* a read asked not to evaluate formulas, of folder F1, with the option
\* usecols: read_csv gets usecols alone
C18_Witness ==
    /\ client = "public" /\ last.op = "read" /\ last.exc = ""
    /\ last.options["evaluate_formulas"] = PyFalse
    /\ last.options["folder_id"] = PyStr(<<"F1">>)
    /\ DOMAIN last.options = {"evaluate_formulas", "folder_id", "usecols"}
    /\ DOMAIN last.events[2].options = {"usecols"}
    /\ last.result.rows.options = [n \in {"usecols"} |-> PyStr(<<"A">>)]

\* the events that change a remote spreadsheet
WriteEvents ==
    {"clear", "set_with_dataframe", "set_format_with_dataframe",
     "add_worksheet", "create"}

\* C19: a query, in either mode and whatever its SQL (an INSERT included),
\* issues no clear, write, add-worksheet or create call and leaves every
\* remote worksheet as it was; its result is the one the same query gives
\* whatever was called before it, computed from the worksheets as they are.
C19_QueryInMemory ==
    [][(last'.op = "query" /\ last' # last) =>
        /\ book' = book /\ created' = created
        /\ \A i \in DOMAIN last'.events : last'.events[i].e \notin WriteEvents
        /\ last'.result =
              (IF client = "public"
               THEN PublicQueryCall(last'.sql, last'.spreadsheet,
                                    last'.worksheet, last'.folder_id)
               ELSE ServiceAccountQueryCall(last'.sql, last'.spreadsheet,
                                            last'.worksheet, last'.folder_id)
              ).result]_vars

\* an INSERT INTO "Sheet1" has run with the service account, after another
\* call changed worksheet Sheet2: both worksheets are as they were before it
C19_Witness ==
    /\ client = "service_account" /\ last.op = "query" /\ last.exc = ""
    /\ last.sql.shape = "insert"
    /\ book[1] = Sheet1 /\ book[2].rows = "dataA"

\* C20: the stored spreadsheet and worksheet are those of the secrets once the
\* connection is made, and no read, query, create, update or clear, of either
\* client, with or without arguments of its own, returning or raising,
\* changes them: only set_default does.
C20_DefaultsFrame ==
    [][/\ pc = "new" =>
              /\ _spreadsheet' = secrets.spreadsheet
              /\ _worksheet' = secrets.worksheet
       /\ (pc = "ready" /\ last'.op # "set_default") =>
              /\ last'.op \in {"read", "query", "create", "update", "clear"}
              /\ _spreadsheet' = _spreadsheet
              /\ _worksheet' = _worksheet]_vars

\* an update of Book that raised, on a connection whose stored spreadsheet is
\* the URL set by set_default and whose stored worksheet is Sheet2
C20_Witness ==
    /\ client = "service_account" /\ last.op = "update"
    /\ last.spreadsheet = BookTitle /\ last.exc = "SpreadsheetNotFound"
    /\ secrets.spreadsheet = BookTitle
    /\ _spreadsheet = UrlA /\ _worksheet = PyStr(<<"Sheet2">>)

\* what may follow &output=csv when the gid is there only for a worksheet
\* passed: nothing, or the worksheet passed
GidOnlyOf(worksheet) ==
    {<<>>} \cup (IF Supplied(worksheet) THEN {GidParam \o Format(worksheet)}
                 ELSE {})

\* C25: a well-formed URL whose path has no segment /d/<key>/ is handled like
\* a bare key: the whole input stands after key=, the gids of its query and
\* fragment are ignored, and a gid follows only when a worksheet is passed.
C25_UrlWithoutKey ==
    (UrlBuilt /\ validate_url(last.spreadsheet)
        /\ ~HasKeySegment(last.spreadsheet.v)) =>
        \E gid \in GidOnlyOf(last.worksheet) :
            last.result.url =
                ExportPrefix \o last.spreadsheet.v \o ExportSuffix \o gid

\* _select_worksheet was called
Selecting == last.op = "_select_worksheet"

\* the places in book of the worksheets titled as the worksheet passed
PlacesTitled == {i \in DOMAIN book : <<book[i].title>> = last.worksheet.v}

\* the position index asked for: the integer passed, 0 for None
IndexAsked ==
    IF last.worksheet.ty = "int" THEN Num(last.worksheet) ELSE 0

CellEvents(call) ==
    {k \in DOMAIN call.events :
        call.events[k].e \in {"clear", "set_with_dataframe",
                              "set_format_with_dataframe"}}

\* C23: with the service account, an update or a create that returns, given
\* no data (None) or data that is no table, writes and clears no cell and
\* returns None; the update leaves the worksheets as they were, and the
\* create adds one worksheet of 0 rows and 0 columns.
C23_NoDataNoWrite ==
    [][(/\ client = "service_account"
        /\ last'.op \in {"update", "create"}
        /\ last'.exc = ""
        /\ last'.data.kind \in {"none", "other"}) =>
            /\ last'.result = NoResult
            /\ CellEvents(last') = {}
            /\ last'.op = "update" => (book' = book /\ created' = created)
            /\ last'.op = "create" =>
                  LET added == last'.events[Len(last'.events)]
                  IN /\ added.e = "add_worksheet"
                     /\ added.rows = 0 /\ added.cols = 0]_vars

\* the events of call that are of kind e
CallEvents(call, e) == {k \in DOMAIN call.events : call.events[k].e = e}

\* C22: with the service account, a create that gets to resolve its
\* spreadsheet opens it first and once, creates a spreadsheet exactly when the
\* open reports it not found, and at most one; unless that creation fails, it
\* then issues exactly one add_worksheet, to the spreadsheet opened or made,
\* and when it returns that spreadsheet has one worksheet more and no other
\* spreadsheet has changed.
C22_CreateOrder ==
    [][(/\ client = "service_account"
        /\ last'.op = "create"
        /\ last'.exc # "ValueError") =>
            LET ev == last'.events
                opens == CallEvents(last', "open")
                            \cup CallEvents(last', "open_by_url")
                creates == CallEvents(last', "create")
                adds == CallEvents(last', "add_worksheet")
                failed == last'.exc = "APIError" /\ adds = {}
                made == creates # {} /\ ~failed
            IN /\ opens = {1}
               /\ (creates # {}) <=> ~ev[1].found
               /\ creates \subseteq {2}
               /\ Len(Drive') = Len(Drive) + (IF made THEN 1 ELSE 0)
               /\ \A i \in DOMAIN Drive :
                     Len(Drive'[i].sheets) \in
                         {Len(Drive[i].sheets), Len(Drive[i].sheets) + 1}
               /\ ~failed =>
                     /\ adds = {Cardinality(creates) + 2}
                     /\ \A a \in adds :
                          /\ IF made THEN ev[a].sp = Len(Drive')
                             ELSE ev[a].sp \in DOMAIN Drive
                          /\ \A i \in DOMAIN Drive \ {ev[a].sp} :
                                Drive'[i] = Drive[i]
                          /\ last'.exc = "" =>
                                Len(Drive'[ev[a].sp].sheets) =
                                    (IF made THEN 1
                                     ELSE Len(Drive[ev[a].sp].sheets)) + 1]_vars

\* a create on a connection whose stored spreadsheet is on no drive: the
\* spreadsheet New is made and holds Sheet1 and the worksheet added
C22_Witness ==
    /\ client = "service_account" /\ last.op = "create" /\ last.exc = ""
    /\ _spreadsheet = PyStr(<<"New">>)
    /\ Len(created) = 1 /\ Len(created[1].sheets) = 2
    /\ Len(last.events) >= 3 /\ last.events[2].e = "create"
    /\ last.events[3].e = "add_worksheet"
\* the key a read or query is looked up by: the cached function and the
\* arguments read or query passes to it, the spreadsheet and the folder
\* after the defaults are filled in
KeyAsked(call) ==
    IF call.op = "read"
    THEN <<"_get_as_dataframe", OrDefault(call.spreadsheet, _spreadsheet),
           OrDefault(call.folder_id, _worksheet), call.worksheet, PyTrue,
           NoOptions>>
    ELSE <<"_query", call.sql, OrDefault(call.spreadsheet, _spreadsheet),
           OrDefault(call.folder_id, _worksheet), PyTrue, NoOptions>>

\* what a read or query returns for the cached value
Returned(call, value) ==
    IF call.op = "read" THEN [kind |-> "table", rows |-> value] ELSE value

\* C21: with the service account, a read or query whose key has an entry in
\* the cache returns that entry without any call to the spreadsheet API and
\* leaves the cache and the remote spreadsheets as they are, whatever the
\* worksheets hold by then; an update, clear or create leaves the cache
\* unchanged; and an entry leaves the cache or changes only when it expires,
\* is evicted, or the cache is cleared by the application.
C21_WritesKeepCache ==
    [][/\ (client = "service_account" /\ last'.op \in {"read", "query"}) =>
             \A e \in cache :
                e.key = KeyAsked(last') =>
                   /\ last'.events = <<>>
                   /\ last'.exc = ""
                   /\ last'.result = Returned(last', e.value)
                   /\ cache' = cache
                   /\ book' = book /\ created' = created
       /\ last'.op \in {"update", "clear", "create"} => cache' = cache
       /\ (\E e \in cache : e \notin cache') =>
             last'.op \in {"cache_clear", "expire"}]_vars

\* a read of Sheet2 answered from the cache after an update wrote to Sheet2:
\* no API call, and rows that the worksheet no longer holds
C21_Witness ==
    /\ client = "service_account" /\ writes = 1
    /\ last.op = "read" /\ last.worksheet = PyStr(<<"Sheet2">>)
    /\ last.events = <<>> /\ last.exc = ""
    /\ book[2].rows = "dataA"
    /\ \E e \in cache :
          /\ e.key = KeyAsked(last)
          /\ last.result = Returned(last, e.value)
          /\ e.value # WorksheetRows(1, 2)

=============================================================================
